---- MODULE Spec2Model ----
(***************************************************************************)
(* Traffic simulation with traffic lights and vehicles (Mini_Proyecto_     *)
(* Trafico).  The module models the two crossing-terminated OpenMP engines *)
(* of the repository:                                                      *)
(*   "pfor"    src/traffic_omp.c        one parallel-for region per phase, *)
(*   "persist" src/unnamed/part_002     one persistent parallel region.    *)
(* Lengths are integers in units of 1/LenUnit metre, times are integers in *)
(* seconds; the doubles of the source only ever hold sums and differences  *)
(* of the configured values, which the grid represents exactly.            *)
(***************************************************************************)
EXTENDS Integers, Sequences, FiniteSets, TLC

\* ----------------------------------------------------------------- bounds
\* Largest vehicle count (argv[1]) the model enumerates.
MaxVehicles == 2
\* Largest team the runtime forms for a parallel region.
MaxThreads == 2
\* Largest value omp_get_max_threads() has when the program starts.
MaxProcs == 3
\* Length units per metre (resolution of pos, speed and stop_distance).
LenUnit == 2
\* Cap of the tick counter; only the liveness specification reaches it.
MaxTicks == 8
\* Longest phase duration the function harness gives a light.
MaxDur == 2
\* Largest vehicle count the function harness passes to choose_threads.
MaxCount == 33

\* Largest tick budget (steps argument) of the short step-limited runs.
MaxSteps == 3
\* Tick budget of the scenario runs, past the first RED of 15 s.
ScenarioSteps == 16

\* ------------------------------------------------------ program constants
\* init_intersection(&X, 4)
\* rand_uniform(60.0, 200.0): the least distance a vehicle respawns at.
RESPAWN_MIN == 60
\* rand_uniform(20.0, 200.0), rand_uniform(6.0, 14.0) of init_vehicles: the
\* range of the initial distances and of the speeds.
POS_MIN == 20
POS_MAX == 200
SPEED_MIN == 6
SPEED_MAX == 14
NUM_LANES == 4
\* schedule(dynamic, 64)
DYN_CHUNK == 64
\* by_vehicles = (num_vehicles + 15) / 16
VEH_PER_THREAD == 16
\* t_green = 12.0, t_yellow = 3.0, t_red = 15.0 of the step-limited programs
T_GREEN == 12
T_YELLOW == 3
T_RED == 15

Engines == {"pfor", "persist"}
\* The engines that take a steps argument: "seq" src/unnamed/part_000
\* (sequential), "omp_steps" src/unnamed/part_001 (parallel-for regions).
StepLimited == {"seq", "omp_steps"}
\* The respawn engines, which also take a steps argument: "respawn_seq" the
\* second program of src/unnamed/part_000, "respawn_omp" the second program
\* of src/unnamed/part_002.
Respawning == {"respawn_seq", "respawn_omp"}
\* The function harness: "rules" applies update_traffic_light and
\* move_vehicle, "heuristic" applies choose_threads.
Units == {"rules", "heuristic"}
LightStates == {"RED", "GREEN", "YELLOW"}

Min(a, b) == IF a < b THEN a ELSE b

\* The lowest element of a non-empty set of integers.
Lowest(S) == CHOOSE x \in S : \A y \in S : x <= y

RECURSIVE SumOver(_, _)
\* Sum of f[i] for i in S.
SumOver(f, S) == IF S = {} THEN 0
                 ELSE LET i == Lowest(S) IN f[i] + SumOver(f, S \ {i})

VARIABLES
  engine,        \* which run_simulation is executing
  num_vehicles,  \* run_simulation's argument
  dt,            \* run_simulation's argument
  steps,         \* the steps argument of the step-limited engines; in the
                 \* others, which take none, the cap of the tick counter
  max_threads,   \* omp_get_max_threads() when the program starts
  seeded,        \* the lights and vehicles produced by srand(seed) + init_*
  X,             \* Intersection: num_lights, stop_distance, lights
  visit,         \* simulated time each light has spent in its phase so far
  V,             \* Vehicle array
  crossed_now,   \* int* crossed_now
  crossed_step,  \* the reduction variable (shared original)
  total_crossed,
  step,
  sim_time,
  threads,       \* pfor: value last passed to omp_set_num_threads (0: none)
  team,          \* size of the team of the current parallel region
  pc,            \* position of each OpenMP thread
  priv,          \* each thread's private copy of crossed_step
  todo,          \* iterations of the current work-shared loop not yet handed out
  mine,          \* pfor: the dynamic chunk each thread holds
  li,            \* persist: loop index of the light loop inside the single
  taken,         \* which single construct has been entered in this iteration
  iter,          \* persist: iterations of for(;;) each thread has begun
  rng            \* respawn engines: values drawn from rand() since init_vehicles

vars == <<engine, num_vehicles, dt, steps, max_threads, seeded, X, visit, V,
          crossed_now, crossed_step, total_crossed, step, sim_time, threads, team, pc, priv,
          todo, mine, li, taken, iter, rng>>

\* The arguments and the seeded inputs of the run.
args == <<engine, num_vehicles, dt, steps, max_threads, seeded>>

\* What no step of the one-shot engines changes: the arguments, and the
\* generator, which they do not use after init_vehicles.
config == <<args, rng>>

\* The threads the runtime has for a region that asks for n.
Available(n) == Min(n, MaxThreads)
Threads == 0 .. (Available(max_threads) - 1)
Team == 0 .. (team - 1)
Vehicles == 0 .. (num_vehicles - 1)
Lights == 0 .. (X.num_lights - 1)

\* Counters saturate at the cap so that a run that never ends stays finite.
SatStep(n) == Min(n, steps)
SatTime(t) == Min(t, steps * dt)

\* ------------------------------------------------------------ light rule
Permits(L) == L.state = "GREEN" \/ L.state = "YELLOW"

\* Variant of the light rule whose RED case restarts the timer without
\* changing the state.
update_traffic_light_StuckRed(L, d) ==
  LET t == L.time_in_state + d IN
  CASE L.state = "GREEN" ->
         IF t >= L.t_green
         THEN [L EXCEPT !.state = "YELLOW", !.time_in_state = 0]
         ELSE [L EXCEPT !.time_in_state = t]
    [] L.state = "YELLOW" ->
         IF t >= L.t_yellow
         THEN [L EXCEPT !.state = "RED", !.time_in_state = 0]
         ELSE [L EXCEPT !.time_in_state = t]
    [] OTHER ->
         IF t >= L.t_red
         THEN [L EXCEPT !.time_in_state = 0]
         ELSE [L EXCEPT !.time_in_state = t]

\* Variant of the light rule that carries the overshoot into the next phase.
update_traffic_light_CarryOver(L, d) ==
  LET t == L.time_in_state + d IN
  CASE L.state = "GREEN" ->
         IF t >= L.t_green
         THEN [L EXCEPT !.state = "YELLOW", !.time_in_state = t - L.t_green]
         ELSE [L EXCEPT !.time_in_state = t]
    [] L.state = "YELLOW" ->
         IF t >= L.t_yellow
         THEN [L EXCEPT !.state = "RED", !.time_in_state = t - L.t_yellow]
         ELSE [L EXCEPT !.time_in_state = t]
    [] OTHER ->
         IF t >= L.t_red
         THEN [L EXCEPT !.state = "GREEN", !.time_in_state = t - L.t_red]
         ELSE [L EXCEPT !.time_in_state = t]

\* Variant of the light rule that compares with > instead of >=.
update_traffic_light_StrictThreshold(L, d) ==
  LET t == L.time_in_state + d IN
  CASE L.state = "GREEN" ->
         IF t > L.t_green
         THEN [L EXCEPT !.state = "YELLOW", !.time_in_state = 0]
         ELSE [L EXCEPT !.time_in_state = t]
    [] L.state = "YELLOW" ->
         IF t > L.t_yellow
         THEN [L EXCEPT !.state = "RED", !.time_in_state = 0]
         ELSE [L EXCEPT !.time_in_state = t]
    [] OTHER ->
         IF t > L.t_red
         THEN [L EXCEPT !.state = "GREEN", !.time_in_state = 0]
         ELSE [L EXCEPT !.time_in_state = t]

\* Variant of the light rule that keeps the accumulated time on a transition.
update_traffic_light_NoReset(L, d) ==
  LET t == L.time_in_state + d IN
  CASE L.state = "GREEN" ->
         IF t >= L.t_green
         THEN [L EXCEPT !.state = "YELLOW", !.time_in_state = t]
         ELSE [L EXCEPT !.time_in_state = t]
    [] L.state = "YELLOW" ->
         IF t >= L.t_yellow
         THEN [L EXCEPT !.state = "RED", !.time_in_state = t]
         ELSE [L EXCEPT !.time_in_state = t]
    [] OTHER ->
         IF t >= L.t_red
         THEN [L EXCEPT !.state = "GREEN", !.time_in_state = t]
         ELSE [L EXCEPT !.time_in_state = t]

update_traffic_light(L, d) ==
  LET t == L.time_in_state + d IN
  CASE L.state = "GREEN" ->
         IF t >= L.t_green
         THEN [L EXCEPT !.state = "YELLOW", !.time_in_state = 0]
         ELSE [L EXCEPT !.time_in_state = t]
    [] L.state = "YELLOW" ->
         IF t >= L.t_yellow
         THEN [L EXCEPT !.state = "RED", !.time_in_state = 0]
         ELSE [L EXCEPT !.time_in_state = t]
    [] OTHER ->
         IF t >= L.t_red
         THEN [L EXCEPT !.state = "GREEN", !.time_in_state = 0]
         ELSE [L EXCEPT !.time_in_state = t]

\* ---------------------------------------------------------- vehicle rule
\* Variant of the vehicle rule without the early return on finished.
move_vehicle_NoEarlyReturn(v, I, d) ==
  LET L  == I.lights[v.lane]
      w1 == IF v.waiting /\ Permits(L) THEN FALSE ELSE v.waiting
      p1 == IF ~w1 THEN v.pos - v.speed * d ELSE v.pos
  IN IF p1 <= 0
     THEN IF Permits(L)
          THEN [v |-> [v EXCEPT !.waiting = w1, !.crossings = @ + 1,
                                !.finished = TRUE, !.pos = 0],
                ret |-> 1]
          ELSE [v |-> [v EXCEPT !.pos = I.stop_distance, !.waiting = TRUE,
                                !.total_wait = SatTime(@ + d)],
                ret |-> 0]
     ELSE [v |-> [v EXCEPT !.waiting = w1, !.pos = p1,
                           !.total_wait = IF w1 THEN SatTime(@ + d) ELSE @],
           ret |-> 0]

\* Variant of the vehicle rule that lets a vehicle at the line cross whatever
\* its light shows.
move_vehicle_AnyLight(v, I, d) ==
  IF v.finished THEN [v |-> v, ret |-> 0]
  ELSE
    LET L  == I.lights[v.lane]
        w1 == IF v.waiting /\ Permits(L) THEN FALSE ELSE v.waiting
        p1 == IF ~w1 THEN v.pos - v.speed * d ELSE v.pos
    IN IF p1 <= 0
       THEN [v |-> [v EXCEPT !.waiting = FALSE, !.crossings = 1,
                             !.finished = TRUE, !.pos = 0],
             ret |-> 1]
       ELSE [v |-> [v EXCEPT !.waiting = w1, !.pos = p1,
                             !.total_wait = IF w1 THEN SatTime(@ + d) ELSE @],
             ret |-> 0]

\* Variant of the vehicle rule that releases a stopped vehicle on GREEN only.
move_vehicle_GreenOnlyRelease(v, I, d) ==
  IF v.finished THEN [v |-> v, ret |-> 0]
  ELSE
    LET L  == I.lights[v.lane]
        w1 == IF v.waiting /\ L.state = "GREEN" THEN FALSE ELSE v.waiting
        p1 == IF ~w1 THEN v.pos - v.speed * d ELSE v.pos
    IN IF p1 <= 0
       THEN IF Permits(L)
            THEN [v |-> [v EXCEPT !.waiting = w1, !.crossings = 1,
                                  !.finished = TRUE, !.pos = 0],
                  ret |-> 1]
            ELSE [v |-> [v EXCEPT !.pos = I.stop_distance, !.waiting = TRUE,
                                  !.total_wait = SatTime(@ + d)],
                  ret |-> 0]
       ELSE [v |-> [v EXCEPT !.waiting = w1, !.pos = p1,
                             !.total_wait = IF w1 THEN SatTime(@ + d) ELSE @],
             ret |-> 0]

\* Variant of the vehicle rule that restarts total_wait when the vehicle is
\* released.
move_vehicle_ResetWaitOnRelease(v, I, d) ==
  IF v.finished THEN [v |-> v, ret |-> 0]
  ELSE
    LET L  == I.lights[v.lane]
        w1 == IF v.waiting /\ Permits(L) THEN FALSE ELSE v.waiting
        p1 == IF ~w1 THEN v.pos - v.speed * d ELSE v.pos
        tw == IF v.waiting /\ ~w1 THEN 0 ELSE v.total_wait
    IN IF p1 <= 0
       THEN IF Permits(L)
            THEN [v |-> [v EXCEPT !.waiting = w1, !.crossings = 1,
                                  !.finished = TRUE, !.pos = 0,
                                  !.total_wait = tw],
                  ret |-> 1]
            ELSE [v |-> [v EXCEPT !.pos = I.stop_distance, !.waiting = TRUE,
                                  !.total_wait = SatTime(tw + d)],
                  ret |-> 0]
       ELSE [v |-> [v EXCEPT !.waiting = w1, !.pos = p1,
                             !.total_wait = IF w1 THEN SatTime(tw + d) ELSE tw],
             ret |-> 0]

\* Variant of the vehicle rule that parks a vehicle blocked by RED on the line
\* itself.
move_vehicle_StopAtLine(v, I, d) ==
  IF v.finished THEN [v |-> v, ret |-> 0]
  ELSE
    LET L  == I.lights[v.lane]
        w1 == IF v.waiting /\ Permits(L) THEN FALSE ELSE v.waiting
        p1 == IF ~w1 THEN v.pos - v.speed * d ELSE v.pos
    IN IF p1 <= 0
       THEN IF Permits(L)
            THEN [v |-> [v EXCEPT !.waiting = w1, !.crossings = 1,
                                  !.finished = TRUE, !.pos = 0],
                  ret |-> 1]
            ELSE [v |-> [v EXCEPT !.pos = 0, !.waiting = TRUE,
                                  !.total_wait = SatTime(@ + d)],
                  ret |-> 0]
       ELSE [v |-> [v EXCEPT !.waiting = w1, !.pos = p1,
                             !.total_wait = IF w1 THEN SatTime(@ + d) ELSE @],
             ret |-> 0]

\* Variant of the vehicle rule that takes the line as reached only once the
\* distance is below 0.
move_vehicle_StrictLine(v, I, d) ==
  IF v.finished THEN [v |-> v, ret |-> 0]
  ELSE
    LET L  == I.lights[v.lane]
        w1 == IF v.waiting /\ Permits(L) THEN FALSE ELSE v.waiting
        p1 == IF ~w1 THEN v.pos - v.speed * d ELSE v.pos
    IN IF p1 < 0
       THEN IF Permits(L)
            THEN [v |-> [v EXCEPT !.waiting = w1, !.crossings = 1,
                                  !.finished = TRUE, !.pos = 0],
                  ret |-> 1]
            ELSE [v |-> [v EXCEPT !.pos = I.stop_distance, !.waiting = TRUE,
                                  !.total_wait = SatTime(@ + d)],
                  ret |-> 0]
       ELSE [v |-> [v EXCEPT !.waiting = w1, !.pos = p1,
                             !.total_wait = IF w1 THEN SatTime(@ + d) ELSE @],
             ret |-> 0]

\* The vehicle after the call and the value returned.
move_vehicle(v, I, d) ==
  IF v.finished THEN [v |-> v, ret |-> 0]
  ELSE
    LET L  == I.lights[v.lane]
        w1 == IF v.waiting /\ Permits(L) THEN FALSE ELSE v.waiting
        p1 == IF ~w1 THEN v.pos - v.speed * d ELSE v.pos
    IN IF p1 <= 0
       THEN IF Permits(L)
            THEN [v |-> [v EXCEPT !.waiting = w1, !.crossings = 1,
                                  !.finished = TRUE, !.pos = 0],
                  ret |-> 1]
            ELSE [v |-> [v EXCEPT !.pos = I.stop_distance, !.waiting = TRUE,
                                  !.total_wait = SatTime(@ + d)],
                  ret |-> 0]
       ELSE [v |-> [v EXCEPT !.waiting = w1, !.pos = p1,
                             !.total_wait = IF w1 THEN SatTime(@ + d) ELSE @],
             ret |-> 0]

\* ------------------------------------------------------- thread heuristic
\* The nthreads-var control variable: its value at program start until
\* omp_set_num_threads stores another.
omp_get_max_threads == IF threads = 0 THEN max_threads ELSE threads

\* Variant of the heuristic whose green bonus follows the parity of the green
\* count rather than half of it.
choose_threads_GreenParity(n, num_lights_green) ==
  LET by_vehicles == (n + (VEH_PER_THREAD - 1)) \div VEH_PER_THREAD
      by_greens   == IF num_lights_green > 0
                     THEN 1 + (num_lights_green % 2) ELSE 1
      proposed    == by_vehicles + by_greens
      p1          == IF proposed < 1 THEN 1 ELSE proposed
  IN IF p1 > omp_get_max_threads THEN omp_get_max_threads ELSE p1

choose_threads(n, num_lights_green) ==
  LET by_vehicles == (n + (VEH_PER_THREAD - 1)) \div VEH_PER_THREAD
      by_greens   == IF num_lights_green > 0
                     THEN 1 + num_lights_green \div 2 ELSE 1
      proposed    == by_vehicles + by_greens
      p1          == IF proposed < 1 THEN 1 ELSE proposed
  IN IF p1 > omp_get_max_threads THEN omp_get_max_threads ELSE p1

greens_now == Cardinality({i \in Lights : X.lights[i].state = "GREEN"})

\* ---------------------------------------------------------- initialisation
\* Phase durations <<t_green, t_yellow, t_red>> a light may be given.
TimingSet == {<<2, 1, 2>>, <<1, 2, 2>>}
\* One timing per light; opposite approaches share theirs.
Profiles == {p \in [0 .. (NUM_LANES - 1) -> TimingSet] :
               \A i \in 0 .. (NUM_LANES - 1) : p[i] = p[i % 2]}

\* Variant: every light starts GREEN.
init_intersection_AllGreen(num_lanes, prof) ==
  [num_lanes |-> num_lanes,
   num_lights |-> num_lanes,
   stop_distance |-> 2 * LenUnit,
   lights |-> [i \in 0 .. (num_lanes - 1) |->
                 [id |-> i,
                  t_green |-> prof[i][1],
                  t_yellow |-> prof[i][2],
                  t_red |-> prof[i][3],
                  state |-> "GREEN",
                  time_in_state |-> 0]]]

init_intersection(num_lanes, prof) ==
  [num_lanes |-> num_lanes,
   num_lights |-> num_lanes,
   stop_distance |-> 2 * LenUnit,
   lights |-> [i \in 0 .. (num_lanes - 1) |->
                 [id |-> i,
                  t_green |-> prof[i][1],
                  t_yellow |-> prof[i][2],
                  t_red |-> prof[i][3],
                  state |-> IF i % 2 = 0 THEN "GREEN" ELSE "RED",
                  time_in_state |-> 0]]]

\* Variant: the lane of a vehicle is its index.
init_vehicles_LaneIsIndex(N, pos0, speed0) ==
  [i \in 0 .. (N - 1) |->
     [id |-> i, lane |-> i, pos |-> pos0[i], speed |-> speed0[i],
      waiting |-> FALSE, total_wait |-> 0, crossings |-> 0,
      finished |-> FALSE]]

init_vehicles(N, pos0, speed0) ==
  [i \in 0 .. (N - 1) |->
     [id |-> i, lane |-> i % 4, pos |-> pos0[i], speed |-> speed0[i],
      waiting |-> FALSE, total_wait |-> 0, crossings |-> 0,
      finished |-> FALSE]]

\* Initial distances and speeds of the main specification: every vehicle
\* covers the stop offset in one tick (speed * dt >= stop_distance), as the
\* configured ranges of the source do (speed in [6, 14], dt = 1, offset 2).
PosSet == {2 * LenUnit + 1, 4 * LenUnit + 1}
SpeedSet == {2 * LenUnit, 2 * LenUnit + 1}
\* Speeds of the liveness specification, slower than the stop offset per tick.
SlowSpeedSet == {1, 2 * LenUnit}
DtSet == {1, 2}

\* The state run_simulation is in when it reaches its tick loop.
Setup(e, N, d, k, M, prof, pos0, speed0) ==
  /\ engine = e
  /\ num_vehicles = N
  /\ dt = d
  /\ steps = k
  /\ max_threads = M
  /\ X = init_intersection(NUM_LANES, prof)
  /\ visit = [i \in 0 .. (NUM_LANES - 1) |-> 0]
  /\ V = init_vehicles(N, pos0, speed0)
  /\ seeded = [X |-> X, V |-> V]
  /\ crossed_now = [i \in 0 .. (N - 1) |-> 0]
  /\ crossed_step = 0
  /\ total_crossed = 0
  /\ step = 0
  /\ sim_time = 0
  /\ threads = 0
  /\ team = 1
  /\ pc = [w \in 0 .. (Available(M) - 1) |->
             IF w > 0 THEN "idle" ELSE IF e = "pfor" THEN "while"
             ELSE IF e \in StepLimited \cup Respawning THEN "loop"
             ELSE "start"]
  /\ priv = [w \in 0 .. (Available(M) - 1) |-> 0]
  /\ todo = {}
  /\ mine = [w \in 0 .. (Available(M) - 1) |-> {}]
  /\ li = 0
  /\ taken = [s1 |-> FALSE, s2 |-> FALSE]
  /\ iter = [w \in 0 .. (Available(M) - 1) |-> 0]
  /\ rng = 0

\* The persistent region runs with omp_set_dynamic(0): its team has
\* omp_get_max_threads() threads, which the model keeps within MaxThreads.
ProcSet(e) == 1 .. (IF e = "pfor" THEN MaxProcs ELSE MaxThreads)

Init ==
  \E e \in Engines, N \in 1 .. MaxVehicles, d \in DtSet, prof \in Profiles :
    \E M \in ProcSet(e), pos0 \in [0 .. (N - 1) -> PosSet],
       speed0 \in [0 .. (N - 1) -> SpeedSet] :
      Setup(e, N, d, MaxTicks, M, prof, pos0, speed0)

\* The vehicle counts main() can hand to run_simulation: atoi(argv[1]) is
\* passed on as it is.
ArgCounts == (-1) .. 1

InitArgs ==
  \E e \in Engines, N \in ArgCounts, d \in DtSet, M \in 1 .. MaxThreads,
     prof \in Profiles :
    \E pos0 \in [0 .. (N - 1) -> PosSet], speed0 \in [0 .. (N - 1) -> SpeedSet] :
      Setup(e, N, d, MaxTicks, M, prof, pos0, speed0)

\* Timings with a duration of zero or less, as a misconfigured intersection
\* would hold them; every light gets the same one.
BadTimingSet == {<<2, 1, 0>>, <<0, 0, 2>>, <<-1, -1, -1>>}

InitZero ==
  \E e \in Engines, N \in 1 .. MaxVehicles, d \in DtSet, M \in 1 .. MaxThreads,
     tm \in BadTimingSet :
    \E pos0 \in [0 .. (N - 1) -> PosSet], speed0 \in [0 .. (N - 1) -> SpeedSet] :
      Setup(e, N, d, MaxTicks, M, [i \in 0 .. (NUM_LANES - 1) |-> tm], pos0, speed0)

\* Every light of the step-limited programs has the same fixed timing.
FixedProfile == [i \in 0 .. (NUM_LANES - 1) |-> <<T_GREEN, T_YELLOW, T_RED>>]

\* The teams a run of engine e can be given.
TeamSet(e) == IF e = "seq" THEN {1} ELSE 1 .. MaxThreads

\* Short runs of the step-limited engines with every budget up to MaxSteps.
InitBudget ==
  \E e \in StepLimited, N \in 1 .. MaxVehicles, d \in DtSet, k \in 0 .. MaxSteps :
    \E M \in TeamSet(e), pos0 \in [0 .. (N - 1) -> PosSet],
       speed0 \in [0 .. (N - 1) -> SpeedSet] :
      Setup(e, N, d, k, M, FixedProfile, pos0, speed0)

\* The scenario vehicles, in metres and metres per second: vehicle 0 (lane 0)
\* 5 m from the line at 5 m/s, vehicle 1 (lane 1) 3 m from the line at 3 m/s.
ScenarioPos == <<5, 3>>

\* The scenario runs: dt = 1, one or both scenario vehicles, a budget that
\* outlasts the first RED; the crossing-driven per-tick engine runs them too.
InitScenario ==
  \E e \in StepLimited \cup {"pfor"}, N \in 1 .. 2 : \E M \in TeamSet(e) :
    Setup(e, N, 1, ScenarioSteps, M, FixedProfile,
          [i \in 0 .. (N - 1) |-> ScenarioPos[i + 1] * LenUnit],
          [i \in 0 .. (N - 1) |-> ScenarioPos[i + 1] * LenUnit])

\* The three one-shot engines started from the same lights and vehicles: the
\* sequential loop gets the durations and the vehicles the parallel engines
\* get, and a budget no run of these inputs uses up.
Refining == {"seq", "pfor", "persist"}

InitRefine ==
  \E e \in Refining, N \in 1 .. MaxVehicles, d \in DtSet, prof \in Profiles :
    \E M \in (IF e = "seq" THEN {1} ELSE ProcSet(e)),
       pos0 \in [0 .. (N - 1) -> PosSet],
       speed0 \in [0 .. (N - 1) -> SpeedSet] :
      Setup(e, N, d, MaxTicks, M, prof, pos0, speed0)

\* Runs of the persistent-region engine alone, with vehicles that cover the
\* stop offset in a tick and vehicles that fall just short of it.
NearSpeedSet == {2 * LenUnit - 1, 2 * LenUnit}

InitPersist ==
  \E N \in 1 .. MaxVehicles, d \in DtSet, M \in 1 .. MaxThreads,
     prof \in Profiles :
    \E pos0 \in [0 .. (N - 1) -> PosSet],
       speed0 \in [0 .. (N - 1) -> NearSpeedSet] :
      Setup("persist", N, d, MaxTicks, M, prof, pos0, speed0)

\* Runs of the respawn engines: two vehicles, or one more than a dynamic
\* chunk holds. The first vehicle of each chunk is fast and two ticks away
\* from the line or three, on a lane that starts GREEN; the others are slow
\* and too far to reach it within the budget.
RespawnCounts == {2, DYN_CHUNK + 1}
NearSet == {POS_MIN, POS_MIN + 10}

InitRespawn ==
  \E e \in Respawning, N \in RespawnCounts :
    \E M \in (IF e = "respawn_seq" THEN {1} ELSE 1 .. MaxThreads),
       near \in [{0, DYN_CHUNK} -> NearSet] :
      Setup(e, N, 1, MaxSteps, M, FixedProfile,
            [i \in 0 .. (N - 1) |->
               IF i % DYN_CHUNK = 0 THEN near[i] * LenUnit
               ELSE POS_MAX * LenUnit],
            [i \in 0 .. (N - 1) |->
               IF i % DYN_CHUNK = 0 THEN SPEED_MAX * LenUnit
               ELSE SPEED_MIN * LenUnit])

\* Initial distances at or past the stop line.
PastLineSet == {-1, 0}

\* Runs whose vehicles start at or past the line.
InitPastLine ==
  \E e \in StepLimited \cup {"pfor"}, N \in 1 .. MaxVehicles, d \in DtSet :
    \E M \in TeamSet(e), pos0 \in [0 .. (N - 1) -> PastLineSet],
       speed0 \in [0 .. (N - 1) -> SpeedSet] :
      Setup(e, N, d, MaxSteps, M, FixedProfile, pos0, speed0)

InitSteps == InitBudget \/ InitScenario \/ InitPastLine

\* ------------------------------------------------------------ shared steps
\* The time light i has spent in its phase once an update has made it L2:
\* none if the update entered the phase, dt more otherwise.
Visit(i, L2) == IF L2.state # X.lights[i].state THEN 0
                ELSE SatTime(visit[i] + dt)

\* The first k elements of a set of integers, in increasing order.
RECURSIVE FirstK(_, _)
FirstK(S, k) == IF k = 0 \/ S = {} THEN {}
                ELSE LET i == Lowest(S) IN {i} \cup FirstK(S \ {i}, k - 1)

\* A barrier of the team opens when every thread of the team waits at it.
AllAt(p) == \A w \in Team : pc[w] = p

\* Variant of the loop body that indexes the vehicle array with the thread
\* number instead of the loop index.
MoveBody_ThreadIndex(w, i) ==
  LET j == w % num_vehicles
      r == move_vehicle(V[j], X, dt) IN
  /\ V' = [V EXCEPT ![j] = r.v]
  /\ crossed_now' = IF r.ret # 0 THEN [crossed_now EXCEPT ![j] = 1]
                    ELSE crossed_now
  /\ priv' = [priv EXCEPT ![w] = @ + r.ret]

\* Body of the vehicle loop for index i, run by thread w.
MoveBody(w, i) ==
  LET r == move_vehicle(V[i], X, dt) IN
  /\ V' = [V EXCEPT ![i] = r.v]
  /\ crossed_now' = IF r.ret # 0 THEN [crossed_now EXCEPT ![i] = 1]
                    ELSE crossed_now
  /\ priv' = [priv EXCEPT ![w] = @ + r.ret]

\* Variant of the aggregation that assigns the tick's count instead of adding it.
\* Variant of the aggregation that advances sim_time by one second per tick.
Aggregate_UnitTime ==
  /\ total_crossed' = total_crossed + crossed_step
  /\ step' = SatStep(step + 1)
  /\ sim_time' = SatTime(sim_time + 1)

Aggregate_Assign ==
  /\ total_crossed' = crossed_step
  /\ step' = SatStep(step + 1)
  /\ sim_time' = SatTime(sim_time + dt)

\* total_crossed += crossed_step; step += 1; sim_time += dt
Aggregate ==
  /\ total_crossed' = total_crossed + crossed_step
  /\ step' = SatStep(step + 1)
  /\ sim_time' = SatTime(sim_time + dt)

\* A thread may leave a work-shared loop once its share is done: nothing is
\* left to hand out, or another thread of the team is still there to take it.
MayLeave(w, p) == todo = {} \/ \E u \in Team : u # w /\ pc[u] = p

\* ------------------------------------- persistent-region engine (part_002)
\* Variant of the fork that asks the heuristic for the size of the team.
P_Fork_Retarget ==
  /\ engine = "persist" /\ pc[0] = "start"
  /\ threads' = choose_threads(num_vehicles, greens_now)
  /\ team' = Available(max_threads)
  /\ pc' = [w \in Threads |-> "bar1"]
  /\ iter' = [w \in Threads |-> 1]
  /\ UNCHANGED <<config, X, visit, V, crossed_now, crossed_step, total_crossed, step,
                 sim_time, priv, todo, mine, li, taken>>

\* #pragma omp parallel default(shared): the team is created once.
P_Fork ==
  /\ engine = "persist" /\ pc[0] = "start"
  /\ team' = Available(max_threads)
  /\ pc' = [w \in Threads |-> "bar1"]
  /\ iter' = [w \in Threads |-> 1]
  /\ UNCHANGED <<config, X, visit, V, crossed_now, crossed_step, total_crossed, step,
                 sim_time, threads, priv, todo, mine, li, taken>>

\* #pragma omp barrier (first of the iteration)
P_Barrier1 ==
  /\ engine = "persist" /\ AllAt("bar1")
  /\ pc' = [w \in Threads |-> "probe"]
  /\ UNCHANGED <<config, X, visit, V, crossed_now, crossed_step, total_crossed, step,
                 sim_time, threads, team, priv, todo, mine, li, taken, iter>>

\* Variant of the early-exit probe whose block holds the break.
P_Probe_Break(w) ==
  /\ engine = "persist" /\ pc[w] = "probe"
  /\ pc' = [pc EXCEPT ![w] = IF w = 0 /\ total_crossed >= num_vehicles
                             THEN "done" ELSE "bar2"]
  /\ UNCHANGED <<config, X, visit, V, crossed_now, crossed_step, total_crossed, step,
                 sim_time, threads, team, priv, todo, mine, li, taken, iter>>

\* if (omp_get_thread_num() == 0 && total_crossed >= num_vehicles) { }
P_Probe(w) ==
  /\ engine = "persist" /\ pc[w] = "probe"
  /\ pc' = [pc EXCEPT ![w] = "bar2"]
  /\ UNCHANGED <<config, X, visit, V, crossed_now, crossed_step, total_crossed, step,
                 sim_time, threads, team, priv, todo, mine, li, taken, iter>>

\* #pragma omp barrier (second of the iteration)
P_Barrier2 ==
  /\ engine = "persist" /\ AllAt("bar2")
  /\ pc' = [w \in Threads |-> "check"]
  /\ UNCHANGED <<config, X, visit, V, crossed_now, crossed_step, total_crossed, step,
                 sim_time, threads, team, priv, todo, mine, li, taken, iter>>

\* if (total_crossed >= num_vehicles) break;
P_Check(w) ==
  /\ engine = "persist" /\ pc[w] = "check"
  /\ pc' = [pc EXCEPT ![w] = IF total_crossed >= num_vehicles
                             THEN "done" ELSE "single1"]
  /\ UNCHANGED <<config, X, visit, V, crossed_now, crossed_step, total_crossed, step,
                 sim_time, threads, team, priv, todo, mine, li, taken, iter>>

\* Variant of the first single with a nowait clause: a thread that does not
\* run the block goes straight on to the vehicle loop.
P_Single1_NoWait(w) ==
  /\ engine = "persist" /\ pc[w] = "single1"
  /\ IF taken.s1
     THEN /\ pc' = [pc EXCEPT ![w] = "for"]
          /\ UNCHANGED <<taken, li>>
     ELSE /\ pc' = [pc EXCEPT ![w] = "s1_lights"]
          /\ taken' = [taken EXCEPT !.s1 = TRUE]
          /\ li' = 0
  /\ UNCHANGED <<config, X, visit, V, crossed_now, crossed_step, total_crossed, step,
                 sim_time, threads, team, priv, todo, mine, iter>>

\* #pragma omp single: the first thread to arrive runs the block, the others
\* go on to the barrier that ends it.
P_Single1(w) ==
  /\ engine = "persist" /\ pc[w] = "single1"
  /\ IF taken.s1
     THEN /\ pc' = [pc EXCEPT ![w] = "s1_bar"]
          /\ UNCHANGED <<taken, li>>
     ELSE /\ pc' = [pc EXCEPT ![w] = "s1_lights"]
          /\ taken' = [taken EXCEPT !.s1 = TRUE]
          /\ li' = 0
  /\ UNCHANGED <<config, X, visit, V, crossed_now, crossed_step, total_crossed, step,
                 sim_time, threads, team, priv, todo, mine, iter>>

\* for (i < X.num_lights) update_traffic_light(&X.lights[i], dt);
P_Light(w) ==
  /\ engine = "persist" /\ pc[w] = "s1_lights"
  /\ IF li < X.num_lights
     THEN /\ X' = [X EXCEPT !.lights[li] = update_traffic_light(@, dt)]
          /\ visit' = [visit EXCEPT ![li] = Visit(li, X'.lights[li])]
          /\ li' = li + 1
          /\ pc' = pc
     ELSE /\ pc' = [pc EXCEPT ![w] = "s1_reset"]
          /\ UNCHANGED <<X, visit, li>>
  /\ UNCHANGED <<config, V, crossed_now, crossed_step, total_crossed, step,
                 sim_time, threads, team, priv, todo, mine, taken, iter>>

\* Variant of the reset that leaves the markers as they are.
P_Reset_KeepMarkers(w) ==
  /\ engine = "persist" /\ pc[w] = "s1_reset"
  /\ crossed_step' = 0
  /\ pc' = [pc EXCEPT ![w] = "s1_bar"]
  /\ UNCHANGED <<config, X, visit, V, crossed_now, total_crossed, step, sim_time,
                 threads, team, priv, todo, mine, li, taken, iter>>

\* for (i < num_vehicles) crossed_now[i] = 0;  crossed_step = 0;
P_Reset(w) ==
  /\ engine = "persist" /\ pc[w] = "s1_reset"
  /\ crossed_now' = [i \in Vehicles |-> 0]
  /\ crossed_step' = 0
  /\ pc' = [pc EXCEPT ![w] = "s1_bar"]
  /\ UNCHANGED <<config, X, visit, V, total_crossed, step, sim_time, threads, team,
                 priv, todo, mine, li, taken, iter>>

\* The barrier that ends the first single; the work-shared loop starts with
\* every iteration to hand out and every private copy of crossed_step at 0.
P_Single1End ==
  /\ engine = "persist" /\ AllAt("s1_bar")
  /\ pc' = [w \in Threads |-> "for"]
  /\ taken' = [taken EXCEPT !.s1 = FALSE]
  /\ todo' = Vehicles
  /\ priv' = [w \in Threads |-> 0]
  /\ UNCHANGED <<config, X, visit, V, crossed_now, crossed_step, total_crossed, step,
                 sim_time, threads, team, mine, li, iter>>

\* #pragma omp for schedule(static) reduction(+:crossed_step): one iteration.
P_Move(w) ==
  /\ engine = "persist" /\ pc[w] = "for"
  /\ \E i \in todo :
       /\ MoveBody(w, i)
       /\ todo' = todo \ {i}
  /\ UNCHANGED <<config, X, visit, crossed_step, total_crossed, step, sim_time,
                 threads, team, pc, mine, li, taken, iter>>

\* Variant of the loop end without the reduction clause: each thread stores
\* its own count into the shared crossed_step.
P_ForEnd_NoReduction(w) ==
  /\ engine = "persist" /\ pc[w] = "for" /\ MayLeave(w, "for")
  /\ crossed_step' = priv[w]
  /\ priv' = [priv EXCEPT ![w] = 0]
  /\ pc' = [pc EXCEPT ![w] = "for_bar"]
  /\ UNCHANGED <<config, X, visit, V, crossed_now, total_crossed, step, sim_time,
                 threads, team, todo, mine, li, taken, iter>>

\* The thread's share is done: its private copy is combined into crossed_step.
P_ForEnd(w) ==
  /\ engine = "persist" /\ pc[w] = "for" /\ MayLeave(w, "for")
  /\ crossed_step' = crossed_step + priv[w]
  /\ priv' = [priv EXCEPT ![w] = 0]
  /\ pc' = [pc EXCEPT ![w] = "for_bar"]
  /\ UNCHANGED <<config, X, visit, V, crossed_now, total_crossed, step, sim_time,
                 threads, team, todo, mine, li, taken, iter>>

\* The barrier that ends the work-shared loop.
P_ForBarrier ==
  /\ engine = "persist" /\ AllAt("for_bar")
  /\ pc' = [w \in Threads |-> "single2"]
  /\ UNCHANGED <<config, X, visit, V, crossed_now, crossed_step, total_crossed, step,
                 sim_time, threads, team, priv, todo, mine, li, taken, iter>>

\* Variant of the aggregation without the single construct: every thread of
\* the team runs the block.
P_Single2_NoSingle(w) ==
  /\ engine = "persist" /\ pc[w] = "single2"
  /\ taken' = [taken EXCEPT !.s2 = TRUE]
  /\ Aggregate
  /\ pc' = [pc EXCEPT ![w] = "s2_bar"]
  /\ UNCHANGED <<config, X, visit, V, crossed_now, crossed_step, threads, team, priv,
                 todo, mine, li, iter>>

\* #pragma omp single { total_crossed += crossed_step; step += 1; ... }
P_Single2(w) ==
  /\ engine = "persist" /\ pc[w] = "single2"
  /\ IF taken.s2
     THEN UNCHANGED <<taken, total_crossed, step, sim_time>>
     ELSE /\ taken' = [taken EXCEPT !.s2 = TRUE]
          /\ Aggregate
  /\ pc' = [pc EXCEPT ![w] = "s2_bar"]
  /\ UNCHANGED <<config, X, visit, V, crossed_now, crossed_step, threads, team, priv,
                 todo, mine, li, iter>>

\* The barrier that ends the second single; the next iteration of for(;;).
P_Single2End ==
  /\ engine = "persist" /\ AllAt("s2_bar")
  /\ pc' = [w \in Threads |-> "bar1"]
  /\ taken' = [taken EXCEPT !.s2 = FALSE]
  /\ iter' = [w \in Threads |-> SatStep(iter[w] + 1)]
  /\ UNCHANGED <<config, X, visit, V, crossed_now, crossed_step, total_crossed, step,
                 sim_time, threads, team, priv, todo, mine, li>>

\* End of the parallel region: every thread has left for(;;).
P_Join ==
  /\ engine = "persist" /\ AllAt("done")
  /\ pc' = [w \in Threads |-> IF w = 0 THEN "end" ELSE "idle"]
  /\ UNCHANGED <<config, X, visit, V, crossed_now, crossed_step, total_crossed, step,
                 sim_time, threads, team, priv, todo, mine, li, taken, iter>>

PersistNext ==
  \/ P_Fork \/ P_Barrier1 \/ P_Barrier2 \/ P_Single1End \/ P_ForBarrier
  \/ P_Single2End \/ P_Join
  \/ \E w \in Team :
       \/ P_Probe(w) \/ P_Check(w) \/ P_Single1(w) \/ P_Light(w) \/ P_Reset(w)
       \/ P_Move(w) \/ P_ForEnd(w) \/ P_Single2(w)

\* ----------------------------------- per-tick parallel-for engine (traffic_omp.c)
\* Every thread outside the team of the current region is idle.
Forked(k, p) == [w \in Threads |-> IF w < k THEN p ELSE "idle"]
Joined(p) == [w \in Threads |-> IF w = 0 THEN p ELSE "idle"]

\* The engines whose tick is three parallel-for regions.
ParFor == engine \in {"pfor", "omp_steps"}

\* Variant of the loop test with the tick budget of the step-limited engines
\* (for (t = 0; t < steps; ++t)) in place of the crossing condition.
F_While_TickBudget ==
  /\ engine = "pfor" /\ pc[0] = "while"
  /\ pc' = [pc EXCEPT ![0] = IF step < 2 THEN "choose" ELSE "end"]
  /\ UNCHANGED <<config, X, visit, V, crossed_now, crossed_step, total_crossed, step,
                 sim_time, threads, team, priv, todo, mine, li, taken, iter>>

\* while (total_crossed < num_vehicles)
F_While ==
  /\ engine = "pfor" /\ pc[0] = "while"
  /\ pc' = [pc EXCEPT ![0] = IF total_crossed < num_vehicles
                             THEN "choose" ELSE "end"]
  /\ UNCHANGED <<config, X, visit, V, crossed_now, crossed_step, total_crossed, step,
                 sim_time, threads, team, priv, todo, mine, li, taken, iter>>

\* Variant of the sizing step that asks for the largest team allowed, whatever
\* the load.
F_Choose_Max ==
  /\ ParFor /\ pc[0] = "choose"
  /\ threads' = omp_get_max_threads
  /\ pc' = [pc EXCEPT ![0] = "par_lights"]
  /\ UNCHANGED <<config, X, visit, V, crossed_now, crossed_step, total_crossed, step,
                 sim_time, team, priv, todo, mine, li, taken, iter>>

\* greens_now; threads = choose_threads(...); omp_set_num_threads(threads);
F_Choose ==
  /\ ParFor /\ pc[0] = "choose"
  /\ threads' = choose_threads(num_vehicles, greens_now)
  /\ pc' = [pc EXCEPT ![0] = "par_lights"]
  /\ UNCHANGED <<config, X, visit, V, crossed_now, crossed_step, total_crossed, step,
                 sim_time, team, priv, todo, mine, li, taken, iter>>

\* #pragma omp parallel for schedule(static) over the lights.  With
\* omp_set_dynamic(1) the runtime gives the region any team of 1..threads.
F_ForkLights ==
  /\ ParFor /\ pc[0] = "par_lights"
  /\ \E k \in 1 .. Available(threads) :
       /\ team' = k
       /\ pc' = Forked(k, "wl")
  /\ todo' = Lights
  /\ UNCHANGED <<config, X, visit, V, crossed_now, crossed_step, total_crossed, step,
                 sim_time, threads, priv, mine, li, taken, iter>>

\* update_traffic_light(&X.lights[i], dt);
F_Light(w) ==
  /\ ParFor /\ pc[w] = "wl"
  /\ \E i \in todo :
       /\ X' = [X EXCEPT !.lights[i] = update_traffic_light(@, dt)]
       /\ visit' = [visit EXCEPT ![i] = Visit(i, X'.lights[i])]
       /\ todo' = todo \ {i}
  /\ UNCHANGED <<config, V, crossed_now, crossed_step, total_crossed, step,
                 sim_time, threads, team, pc, priv, mine, li, taken, iter>>

F_LightEnd(w) ==
  /\ ParFor /\ pc[w] = "wl" /\ MayLeave(w, "wl")
  /\ pc' = [pc EXCEPT ![w] = "jl"]
  /\ UNCHANGED <<config, X, visit, V, crossed_now, crossed_step, total_crossed, step,
                 sim_time, threads, team, priv, todo, mine, li, taken, iter>>

\* The barrier that ends the region; the master goes on alone.
F_JoinLights ==
  /\ ParFor /\ AllAt("jl")
  /\ pc' = Joined("par_reset")
  /\ UNCHANGED <<config, X, visit, V, crossed_now, crossed_step, total_crossed, step,
                 sim_time, threads, team, priv, todo, mine, li, taken, iter>>

\* #pragma omp parallel for schedule(static) over crossed_now.
F_ForkReset ==
  /\ ParFor /\ pc[0] = "par_reset"
  /\ \E k \in 1 .. Available(threads) :
       /\ team' = k
       /\ pc' = Forked(k, "wr")
  /\ todo' = Vehicles
  /\ UNCHANGED <<config, X, visit, V, crossed_now, crossed_step, total_crossed, step,
                 sim_time, threads, priv, mine, li, taken, iter>>

\* crossed_now[i] = 0;
F_Reset(w) ==
  /\ ParFor /\ pc[w] = "wr"
  /\ \E i \in todo :
       /\ crossed_now' = [crossed_now EXCEPT ![i] = 0]
       /\ todo' = todo \ {i}
  /\ UNCHANGED <<config, X, visit, V, crossed_step, total_crossed, step, sim_time,
                 threads, team, pc, priv, mine, li, taken, iter>>

F_ResetEnd(w) ==
  /\ ParFor /\ pc[w] = "wr" /\ MayLeave(w, "wr")
  /\ pc' = [pc EXCEPT ![w] = "jr"]
  /\ UNCHANGED <<config, X, visit, V, crossed_now, crossed_step, total_crossed, step,
                 sim_time, threads, team, priv, todo, mine, li, taken, iter>>

F_JoinReset ==
  /\ ParFor /\ AllAt("jr")
  /\ pc' = Joined("par_move")
  /\ UNCHANGED <<config, X, visit, V, crossed_now, crossed_step, total_crossed, step,
                 sim_time, threads, team, priv, todo, mine, li, taken, iter>>

\* int crossed_step = 0;
\* #pragma omp parallel for reduction(+:crossed_step) schedule(dynamic, 64)
F_ForkMove ==
  /\ ParFor /\ pc[0] = "par_move"
  /\ crossed_step' = 0
  /\ \E k \in 1 .. Available(threads) :
       /\ team' = k
       /\ pc' = Forked(k, "wm")
  /\ todo' = Vehicles
  /\ priv' = [w \in Threads |-> 0]
  /\ mine' = [w \in Threads |-> {}]
  /\ UNCHANGED <<config, X, visit, V, crossed_now, total_crossed, step, sim_time,
                 threads, li, taken, iter>>

\* A thread with no chunk takes the next DYN_CHUNK iterations.
F_Grab(w) ==
  /\ ParFor /\ pc[w] = "wm" /\ mine[w] = {} /\ todo # {}
  /\ LET chunk == FirstK(todo, DYN_CHUNK) IN
       /\ mine' = [mine EXCEPT ![w] = chunk]
       /\ todo' = todo \ chunk
  /\ UNCHANGED <<config, X, visit, V, crossed_now, crossed_step, total_crossed, step,
                 sim_time, threads, team, pc, priv, li, taken, iter>>

\* int c = move_vehicle(&V[i], &X, dt); if (c) crossed_now[i] = 1; ...
F_Move(w) ==
  /\ ParFor /\ pc[w] = "wm" /\ mine[w] # {}
  /\ LET i == Lowest(mine[w]) IN
       /\ MoveBody(w, i)
       /\ mine' = [mine EXCEPT ![w] = @ \ {i}]
  /\ UNCHANGED <<config, X, visit, crossed_step, total_crossed, step, sim_time,
                 threads, team, pc, todo, li, taken, iter>>

\* No chunk is left: the private copy is combined into crossed_step.
F_MoveEnd(w) ==
  /\ ParFor /\ pc[w] = "wm" /\ mine[w] = {} /\ todo = {}
  /\ crossed_step' = crossed_step + priv[w]
  /\ priv' = [priv EXCEPT ![w] = 0]
  /\ pc' = [pc EXCEPT ![w] = "jm"]
  /\ UNCHANGED <<config, X, visit, V, crossed_now, total_crossed, step, sim_time,
                 threads, team, todo, mine, li, taken, iter>>

F_JoinMove ==
  /\ ParFor /\ AllAt("jm")
  /\ pc' = Joined("agg")
  /\ UNCHANGED <<config, X, visit, V, crossed_now, crossed_step, total_crossed, step,
                 sim_time, threads, team, priv, todo, mine, li, taken, iter>>

\* total_crossed += crossed_step; step += 1; sim_time += dt;
F_Aggregate ==
  /\ engine = "pfor" /\ pc[0] = "agg"
  /\ Aggregate
  /\ pc' = [pc EXCEPT ![0] = "while"]
  /\ UNCHANGED <<config, X, visit, V, crossed_now, crossed_step, threads, team, priv,
                 todo, mine, li, taken, iter>>

PforNext ==
  \/ F_While \/ F_Choose \/ F_ForkLights \/ F_JoinLights \/ F_ForkReset
  \/ F_JoinReset \/ F_ForkMove \/ F_JoinMove \/ F_Aggregate
  \/ \E w \in Team :
       \/ F_Light(w) \/ F_LightEnd(w) \/ F_Reset(w) \/ F_ResetEnd(w)
       \/ F_Grab(w) \/ F_Move(w) \/ F_MoveEnd(w)

\* ------------------- step-limited engines (part_000 sequential, part_001 OpenMP)
\* for (int t = 0; t < steps; ++t): step holds t at the loop test and the
\* number of ticks executed everywhere.
S_For ==
  /\ engine \in StepLimited /\ pc[0] = "loop"
  /\ pc' = [pc EXCEPT ![0] = IF step < steps
                             THEN (IF engine = "seq" THEN "lights" ELSE "choose")
                             ELSE "end"]
  /\ UNCHANGED <<config, X, visit, V, crossed_now, crossed_step, total_crossed, step,
                 sim_time, threads, team, priv, todo, mine, li, taken, iter>>

\* for (i < X.num_lights) update_traffic_light(&X.lights[i], dt);
Q_Lights ==
  /\ engine = "seq" /\ pc[0] = "lights"
  /\ X' = [X EXCEPT !.lights =
             [i \in Lights |-> update_traffic_light(X.lights[i], dt)]]
  /\ visit' = [i \in Lights |-> Visit(i, X'.lights[i])]
  /\ pc' = [pc EXCEPT ![0] = "reset"]
  /\ UNCHANGED <<config, V, crossed_now, crossed_step, total_crossed, step,
                 sim_time, threads, team, priv, todo, mine, li, taken, iter>>

\* for (i < num_vehicles) crossed_now[i] = 0;  int crossed_step = 0;
Q_Reset ==
  /\ engine = "seq" /\ pc[0] = "reset"
  /\ crossed_now' = [i \in Vehicles |-> 0]
  /\ crossed_step' = 0
  /\ li' = 0
  /\ pc' = [pc EXCEPT ![0] = "move"]
  /\ UNCHANGED <<config, X, visit, V, total_crossed, step, sim_time, threads, team,
                 priv, todo, mine, taken, iter>>

\* for (i < num_vehicles) { int c = move_vehicle(&V[i], &X, dt);
\*                          if (c) { crossed_now[i] = 1; crossed_step += 1; } }
Q_Move ==
  /\ engine = "seq" /\ pc[0] = "move"
  /\ IF li < num_vehicles
     THEN LET r == move_vehicle(V[li], X, dt) IN
          /\ V' = [V EXCEPT ![li] = r.v]
          /\ crossed_now' = IF r.ret # 0 THEN [crossed_now EXCEPT ![li] = 1]
                            ELSE crossed_now
          /\ crossed_step' = IF r.ret # 0 THEN crossed_step + 1 ELSE crossed_step
          /\ li' = li + 1
          /\ pc' = pc
     ELSE /\ pc' = [pc EXCEPT ![0] = "agg"]
          /\ UNCHANGED <<V, crossed_now, crossed_step, li>>
  /\ UNCHANGED <<config, X, visit, total_crossed, step, sim_time, threads, team,
                 priv, todo, mine, taken, iter>>

\* total_crossed += crossed_step; and the tick is complete.
S_Aggregate ==
  /\ engine \in StepLimited /\ pc[0] = "agg"
  /\ Aggregate
  /\ pc' = [pc EXCEPT ![0] = "brk"]
  /\ UNCHANGED <<config, X, visit, V, crossed_now, crossed_step, threads, team, priv,
                 todo, mine, li, taken, iter>>

\* Variant of the early stop that never breaks: the run uses its whole budget.
S_Break_Never ==
  /\ engine \in StepLimited /\ pc[0] = "brk"
  /\ pc' = [pc EXCEPT ![0] = "loop"]
  /\ UNCHANGED <<config, X, visit, V, crossed_now, crossed_step, total_crossed, step,
                 sim_time, threads, team, priv, todo, mine, li, taken, iter>>

\* if (total_crossed >= num_vehicles) break;
S_Break ==
  /\ engine \in StepLimited /\ pc[0] = "brk"
  /\ pc' = [pc EXCEPT ![0] = IF total_crossed >= num_vehicles
                             THEN "end" ELSE "loop"]
  /\ UNCHANGED <<config, X, visit, V, crossed_now, crossed_step, total_crossed, step,
                 sim_time, threads, team, priv, todo, mine, li, taken, iter>>

SeqNext == S_For \/ Q_Lights \/ Q_Reset \/ Q_Move \/ S_Aggregate \/ S_Break

\* The step-limited engines, and the crossing-driven per-tick engine for the
\* scenario runs.
StepsNext == SeqNext \/ PforNext

\* ------------------ respawn engines (second programs of part_000, part_002)
\* rand_uniform(60.0, 200.0) as the n-th draw after init_vehicles: the stream
\* is fixed by srand(seed), and successive draws differ.
RandAt(n) == (RESPAWN_MIN + n) * LenUnit

\* move_vehicle of the respawn programs, called with the generator at r: no
\* finished flag; a vehicle that crosses is counted and put back at the next
\* value of the generator.
respawn_move_vehicle(v, I, d, r) ==
  LET L  == I.lights[v.lane]
      w1 == IF v.waiting /\ Permits(L) THEN FALSE ELSE v.waiting
      p1 == IF ~w1 THEN v.pos - v.speed * d ELSE v.pos
  IN IF p1 <= 0
     THEN IF Permits(L)
          THEN [v |-> [v EXCEPT !.waiting = w1, !.crossings = @ + 1,
                                !.pos = RandAt(r)],
                ret |-> 1, rng |-> r + 1]
          ELSE [v |-> [v EXCEPT !.pos = I.stop_distance, !.waiting = TRUE,
                                !.total_wait = @ + d],
                ret |-> 0, rng |-> r]
     ELSE [v |-> [v EXCEPT !.waiting = w1, !.pos = p1,
                           !.total_wait = IF w1 THEN @ + d ELSE @],
           ret |-> 0, rng |-> r]

\* for (int t = 0; t < steps; ++t)
R_For ==
  /\ engine \in Respawning /\ pc[0] = "loop"
  /\ pc' = [pc EXCEPT ![0] = IF step >= steps THEN "end"
                             ELSE IF engine = "respawn_omp" THEN "choose"
                             ELSE "lights"]
  /\ UNCHANGED <<config, X, visit, V, crossed_now, crossed_step, total_crossed, step,
                 sim_time, threads, team, priv, todo, mine, li, taken, iter>>

\* int threads = choose_threads(num_vehicles, greens_now);
\* omp_set_num_threads(threads);
R_Choose ==
  /\ engine = "respawn_omp" /\ pc[0] = "choose"
  /\ threads' = choose_threads(num_vehicles, greens_now)
  /\ pc' = [pc EXCEPT ![0] = "lights"]
  /\ UNCHANGED <<config, X, visit, V, crossed_now, crossed_step, total_crossed, step,
                 sim_time, team, priv, todo, mine, li, taken, iter>>

\* The light loop, a plain loop in the sequential program and a parallel-for
\* region of its own, joined before the next statement, in the OpenMP one;
\* int crossed_step = 0;
R_Lights ==
  /\ engine \in Respawning /\ pc[0] = "lights"
  /\ X' = [X EXCEPT !.lights =
             [i \in Lights |-> update_traffic_light(X.lights[i], dt)]]
  /\ visit' = [i \in Lights |-> Visit(i, X'.lights[i])]
  /\ crossed_step' = 0
  /\ li' = 0
  /\ pc' = [pc EXCEPT ![0] = IF engine = "respawn_omp" THEN "par_move"
                             ELSE "move"]
  /\ UNCHANGED <<config, V, crossed_now, total_crossed, step, sim_time, threads,
                 team, priv, todo, mine, taken, iter>>

\* for (i < num_vehicles) crossed_step += move_vehicle(&V[i], &X, dt);
R_SeqMove ==
  /\ engine = "respawn_seq" /\ pc[0] = "move"
  /\ IF li < num_vehicles
     THEN LET r == respawn_move_vehicle(V[li], X, dt, rng) IN
          /\ V' = [V EXCEPT ![li] = r.v]
          /\ rng' = r.rng
          /\ crossed_step' = crossed_step + r.ret
          /\ li' = li + 1
          /\ pc' = pc
     ELSE /\ pc' = [pc EXCEPT ![0] = "agg"]
          /\ UNCHANGED <<V, rng, crossed_step, li>>
  /\ UNCHANGED <<args, X, visit, crossed_now, total_crossed, step, sim_time,
                 threads, team, priv, todo, mine, taken, iter>>

\* #pragma omp parallel for reduction(+:crossed_step) schedule(dynamic, 64)
R_ForkMove ==
  /\ engine = "respawn_omp" /\ pc[0] = "par_move"
  /\ \E k \in 1 .. Available(threads) :
       /\ team' = k
       /\ pc' = Forked(k, "rm")
  /\ todo' = Vehicles
  /\ priv' = [w \in Threads |-> 0]
  /\ mine' = [w \in Threads |-> {}]
  /\ UNCHANGED <<config, X, visit, V, crossed_now, crossed_step, total_crossed, step,
                 sim_time, threads, li, taken, iter>>

\* A thread with no chunk takes the next DYN_CHUNK iterations.
R_Grab(w) ==
  /\ engine = "respawn_omp" /\ pc[w] = "rm" /\ mine[w] = {} /\ todo # {}
  /\ LET chunk == FirstK(todo, DYN_CHUNK) IN
       /\ mine' = [mine EXCEPT ![w] = chunk]
       /\ todo' = todo \ chunk
  /\ UNCHANGED <<config, X, visit, V, crossed_now, crossed_step, total_crossed, step,
                 sim_time, threads, team, pc, priv, li, taken, iter>>

\* crossed_step += move_vehicle(&V[i], &X, dt); the call draws from the
\* generator all threads share. rand() is taken as the C library serialises
\* it: each call returns the next value of the one stream.
R_Move(w) ==
  /\ engine = "respawn_omp" /\ pc[w] = "rm" /\ mine[w] # {}
  /\ LET i == Lowest(mine[w])
         r == respawn_move_vehicle(V[i], X, dt, rng) IN
       /\ V' = [V EXCEPT ![i] = r.v]
       /\ rng' = r.rng
       /\ priv' = [priv EXCEPT ![w] = @ + r.ret]
       /\ mine' = [mine EXCEPT ![w] = @ \ {i}]
  /\ UNCHANGED <<args, X, visit, crossed_now, crossed_step, total_crossed, step,
                 sim_time, threads, team, pc, todo, li, taken, iter>>

\* No chunk is left: the private copy is combined into crossed_step.
R_MoveEnd(w) ==
  /\ engine = "respawn_omp" /\ pc[w] = "rm" /\ mine[w] = {} /\ todo = {}
  /\ crossed_step' = crossed_step + priv[w]
  /\ priv' = [priv EXCEPT ![w] = 0]
  /\ pc' = [pc EXCEPT ![w] = "rj"]
  /\ UNCHANGED <<config, X, visit, V, crossed_now, total_crossed, step, sim_time,
                 threads, team, todo, mine, li, taken, iter>>

R_JoinMove ==
  /\ engine = "respawn_omp" /\ AllAt("rj")
  /\ pc' = Joined("agg")
  /\ UNCHANGED <<config, X, visit, V, crossed_now, crossed_step, total_crossed, step,
                 sim_time, threads, team, priv, todo, mine, li, taken, iter>>

\* total_crossed += crossed_step; and ++t.
R_Aggregate ==
  /\ engine \in Respawning /\ pc[0] = "agg"
  /\ total_crossed' = total_crossed + crossed_step
  /\ step' = step + 1
  /\ pc' = [pc EXCEPT ![0] = "loop"]
  /\ UNCHANGED <<config, X, visit, V, crossed_now, crossed_step, sim_time, threads,
                 team, priv, todo, mine, li, taken, iter>>

RespawnNext ==
  \/ R_For \/ R_Choose \/ R_Lights \/ R_SeqMove \/ R_ForkMove \/ R_JoinMove
  \/ R_Aggregate
  \/ \E w \in Team : R_Grab(w) \/ R_Move(w) \/ R_MoveEnd(w)

Next == PersistNext \/ PforNext

\* ------------------------------------------------------- function harness
\* Durations, distances and speeds the harness draws from.
UnitTimingSet == (1 .. MaxDur) \X (1 .. MaxDur) \X (1 .. MaxDur)
UnitPosSet == 1 .. (4 * LenUnit + 1)
UnitSpeedSet == 1 .. (2 * LenUnit + 1)
CountSet == 0 .. MaxCount
GreenSet == 0 .. NUM_LANES

\* One vehicle on lane 0 before an intersection whose lights share one timing.
InitRules ==
  \E d \in DtSet, tm \in UnitTimingSet, p \in UnitPosSet, sp \in UnitSpeedSet :
    Setup("rules", 1, d, MaxTicks, 1, [i \in 0 .. (NUM_LANES - 1) |-> tm],
          [i \in {0} |-> p], [i \in {0} |-> sp])

InitHeuristic ==
  \E M \in 1 .. MaxProcs, tm \in TimingSet :
    Setup("heuristic", 1, 1, MaxTicks, M, [i \in 0 .. (NUM_LANES - 1) |-> tm],
          [i \in {0} |-> 2 * LenUnit + 1], [i \in {0} |-> 2 * LenUnit])

InitUnit == InitRules \/ InitHeuristic

\* for (i < X.num_lights) update_traffic_light(&X.lights[i], dt);
U_Lights ==
  /\ engine = "rules"
  /\ X' = [X EXCEPT !.lights =
             [i \in Lights |-> update_traffic_light(X.lights[i], dt)]]
  /\ visit' = [i \in Lights |-> Visit(i, X'.lights[i])]
  /\ UNCHANGED <<config, V, crossed_now, crossed_step, total_crossed, step,
                 sim_time, threads, team, pc, priv, todo, mine, li, taken, iter>>

\* int c = move_vehicle(&V[i], &X, dt); ...  with total_wait below the cap.
U_Move ==
  /\ engine = "rules"
  /\ \E i \in Vehicles :
       /\ V[i].total_wait + dt <= steps * dt
       /\ MoveBody(0, i)
  /\ UNCHANGED <<config, X, visit, crossed_step, total_crossed, step, sim_time,
                 threads, team, pc, todo, mine, li, taken, iter>>

\* threads = choose_threads(n, g); omp_set_num_threads(threads);
U_Choose ==
  /\ engine = "heuristic"
  /\ \E n \in CountSet, g \in GreenSet : threads' = choose_threads(n, g)
  /\ UNCHANGED <<config, X, visit, V, crossed_now, crossed_step, total_crossed, step,
                 sim_time, team, pc, priv, todo, mine, li, taken, iter>>

UnitNext == U_Lights \/ U_Move \/ U_Choose

\* ------------------------------------------------- reference tick semantics
\* One tick applied to a whole run state: every light advanced, then every
\* vehicle moved against the advanced lights, then the totals.
RefTick(s) ==
  LET X1 == [s.X EXCEPT !.lights =
               [i \in DOMAIN s.X.lights |-> update_traffic_light(s.X.lights[i], dt)]]
      R  == [i \in DOMAIN s.V |-> move_vehicle(s.V[i], X1, dt)]
      c  == [i \in DOMAIN s.V |-> R[i].ret]
  IN [X |-> X1,
      V |-> [i \in DOMAIN s.V |-> R[i].v],
      crossed_now |-> c,
      total_crossed |-> s.total_crossed + SumOver(c, DOMAIN s.V)]

RECURSIVE RefRun(_)
\* The run state after n ticks of the seeded lights and vehicles.
RefRun(n) ==
  IF n = 0
  THEN [X |-> seeded.X, V |-> seeded.V,
        crossed_now |-> [i \in DOMAIN seeded.V |-> 0], total_crossed |-> 0]
  ELSE RefTick(RefRun(n - 1))

RECURSIVE RespawnSweep(_, _)
\* The vehicle loop of the sequential respawn program over the first n
\* vehicles of run state s: index order, one generator.
RespawnSweep(s, n) ==
  IF n = 0 THEN [s EXCEPT !.crossed_step = 0]
  ELSE LET q == RespawnSweep(s, n - 1)
           r == respawn_move_vehicle(q.V[n - 1], q.X, dt, q.rng)
       IN [q EXCEPT !.V[n - 1] = r.v, !.rng = r.rng,
                    !.crossed_step = @ + r.ret]

\* One tick of the sequential respawn program.
RespawnTick(s) ==
  LET X1 == [s.X EXCEPT !.lights =
               [i \in DOMAIN s.X.lights |-> update_traffic_light(s.X.lights[i], dt)]]
      q  == RespawnSweep([s EXCEPT !.X = X1], Cardinality(DOMAIN s.V))
  IN [q EXCEPT !.total_crossed = @ + q.crossed_step]

RECURSIVE RespawnRun(_)
\* The state of the sequential respawn program after n ticks from the seed.
RespawnRun(n) ==
  IF n = 0
  THEN [X |-> seeded.X, V |-> seeded.V, rng |-> 0, crossed_step |-> 0,
        total_crossed |-> 0]
  ELSE RespawnTick(RespawnRun(n - 1))

\* ------------------------------------------------------- phases of a tick
\* A tick boundary: the Aggregation step of the last tick is complete and no
\* step of the next tick has been taken.
AtBoundary ==
  IF engine = "pfor"
  THEN pc[0] \in {"while", "choose", "par_lights", "end"}
  ELSE IF engine \in StepLimited
  THEN pc[0] \in {"loop", "choose", "par_lights", "lights", "brk", "end"}
  ELSE \A w \in Threads :
         \/ pc[w] \in {"start", "idle", "end", "bar1", "probe", "bar2", "check",
                       "done", "s2_bar"}
         \/ pc[w] = "single2" /\ taken.s2
         \/ pc[w] = "single1" /\ ~taken.s1

\* Some thread is inside the vehicle loop.
InMotion == \E w \in Threads : pc[w] \in {"for", "wm"}

\* Vehicle i has been through this tick's vehicle loop.
Handled(i) ==
  /\ \E w \in Threads : pc[w] \in {"for", "for_bar", "wm", "jm"}
  /\ i \notin todo
  /\ \A w \in Threads : i \notin mine[w]

LoopExited == \E w \in Threads : pc[w] \in {"done", "end"}
RunEnded == pc[0] = "end"
Finished == {i \in Vehicles : V[i].finished}

\* ------------------------------------------------------------------ claims

\* C1 -- Conservation: at every tick boundary total_crossed equals the number
\* of vehicles whose finished flag is true, and once the tick loop has been
\* left total_crossed equals num_vehicles exactly.
C1_Conservation ==
  /\ AtBoundary => total_crossed = Cardinality(Finished)
  /\ LoopExited => total_crossed = num_vehicles

\* A boundary in the middle of a run: some vehicles have crossed, others not.
C1_Witness ==
  /\ AtBoundary /\ step >= 2
  /\ 0 < total_crossed /\ total_crossed < num_vehicles

\* C2 -- One-shot crossing: crossings is 0 or 1; on a finished vehicle
\* move_vehicle returns 0 and changes nothing, and no step of the run changes
\* a finished vehicle.
C2_OneShot ==
  /\ [](\A i \in Vehicles :
          /\ V[i].crossings \in {0, 1}
          /\ V[i].finished =>
               move_vehicle(V[i], X, dt) = [v |-> V[i], ret |-> 0])
  /\ [][\A i \in Vehicles :
          V[i].finished => /\ V'[i] = V[i]
                           /\ crossed_now'[i] <= crossed_now[i]]_vars

\* A vehicle that finished in an earlier tick has been through the vehicle
\* loop again.
C2_Witness ==
  \E i \in Vehicles : V[i].finished /\ crossed_now[i] = 0 /\ Handled(i)

\* C3 -- A vehicle never crosses on RED: finished turns true only in a step
\* that leaves the distance after movement <= 0 while the light of the
\* vehicle's lane, as advanced by this tick's Light phase, is GREEN or YELLOW,
\* and that step reports the crossing.
C3_NoCrossOnRed ==
  [][\A i \in Vehicles :
       (~V[i].finished /\ V'[i].finished) =>
          /\ Permits(X.lights[V[i].lane])
          /\ X.lights = RefRun(step + 1).X.lights
          /\ V[i].pos - V[i].speed * dt <= 0
          /\ crossed_now'[i] = 1
          /\ SumOver(priv', Threads) = SumOver(priv, Threads) + 1]_vars

\* A vehicle that was held at the stop offset by a RED light has crossed.
C3_Witness == \E i \in Vehicles : V[i].finished /\ V[i].total_wait > 0

\* C4 -- Determinism independent of team size: at every tick boundary the
\* lights, the vehicles, crossed_now and the counters are the values the
\* reference tick yields from the seeded state after step ticks, whatever the
\* engine, max_threads, the team of each region and the interleaving; the run
\* ends after the first tick at which the reference total reaches
\* num_vehicles.
C4_Deterministic ==
  AtBoundary =>
    LET r == RefRun(step) IN
    /\ X = r.X /\ V = r.V /\ total_crossed = r.total_crossed
    /\ sim_time = step * dt
    /\ crossed_now = r.crossed_now
    /\ RunEnded => /\ r.total_crossed >= num_vehicles
                   /\ \A m \in 0 .. (step - 1) :
                        RefRun(m).total_crossed < num_vehicles

\* A boundary after two ticks of a run with the largest team, with a crossing.
C4_Witness ==
  /\ AtBoundary /\ step >= 2 /\ max_threads = MaxThreads /\ team = MaxThreads
  /\ total_crossed >= 1

\* C5 -- Crossing-driven termination: a tick is in progress only while
\* total_crossed < num_vehicles, the loop is left only with total_crossed >=
\* num_vehicles, nothing of the simulation changes once total_crossed >=
\* num_vehicles, and the tick counter never reaches a ceiling.
C5_CrossingDriven ==
  /\ [](/\ (~AtBoundary \/ pc[0] \in {"choose", "par_lights"}) =>
             total_crossed < num_vehicles
        /\ LoopExited => total_crossed >= num_vehicles
        /\ step < MaxTicks)
  /\ [][total_crossed >= num_vehicles =>
          UNCHANGED <<X, V, crossed_now, total_crossed, step, sim_time>>]_vars

\* A run that has ended after at least three ticks.
C5_Witness == RunEnded /\ step >= 3

\* Some thread is inside the light loop.
InLightPhase == \E w \in Threads : pc[w] \in {"s1_lights", "wl"}

\* Vehicle index i is still to be handed out or held in a thread's chunk.
Pending(i) == i \in todo \/ \E w \in Threads : i \in mine[w]

\* C7 -- Light phase before Motion phase: while any thread is in the vehicle
\* loop no thread is in the light loop and every light holds the value of
\* this tick's Light phase; every step that changes a vehicle is taken in such
\* a state.
C7_LightsBeforeMotion ==
  /\ [](InMotion => /\ ~InLightPhase
                    /\ X.lights = RefRun(step + 1).X.lights)
  /\ [][V' # V => /\ InMotion
                  /\ X.lights = RefRun(step + 1).X.lights]_vars

\* A vehicle held by RED has crossed in the very tick whose Light phase turned
\* its light GREEN.
C7_Witness ==
  /\ InMotion
  /\ \E i \in Vehicles :
       /\ ~Pending(i) /\ crossed_now[i] = 1 /\ V[i].total_wait > 0
       /\ X.lights[V[i].lane].state = "GREEN"
       /\ X.lights[V[i].lane].time_in_state = 0

\* Positions of an iteration of for(;;) before its Aggregation step.
PreAggregation == {"bar1", "probe", "bar2", "check", "single1", "s1_lights",
                   "s1_reset", "s1_bar", "for", "for_bar"}

\* C8 -- Tick separation and consistent termination in the persistent-region
\* engine: a thread in iteration n of for(;;) before its Aggregation step sees
\* exactly n - 1 aggregated ticks; a thread has left the loop only if every
\* thread is at the termination check or has left it too, with total_crossed
\* >= num_vehicles; no thread is past the check of an iteration another
\* thread has left the loop in.
C8_TickSeparation ==
  engine = "persist" =>
    \A w \in Threads :
      /\ pc[w] \in PreAggregation => step = iter[w] - 1
      /\ pc[w] = "single2" => step = IF taken.s2 THEN iter[w] ELSE iter[w] - 1
      /\ pc[w] = "s2_bar" => step = iter[w]
      /\ pc[w] \notin {"start", "idle", "end"} =>
           \A u \in Threads : iter[u] = iter[w]
      /\ pc[w] = "done" =>
           /\ total_crossed >= num_vehicles
           /\ \A u \in Threads : pc[u] \in {"check", "done"}
      /\ pc[w] \in {"single1", "s1_lights", "s1_reset", "s1_bar"} =>
           total_crossed < num_vehicles

\* One thread of a team of two or more has left the loop while another is
\* still at the termination check, after at least two ticks.
C8_Witness ==
  /\ engine = "persist" /\ team >= 2 /\ step >= 2
  /\ \E w, u \in Threads : pc[w] = "done" /\ pc[u] = "check"

\* C9 -- Single-writer aggregation: total_crossed, step and sim_time change
\* only in a step of one thread that ends a tick, taken once per tick, which
\* adds the tick's crossing count, 1 and dt.
C9_SingleWriter ==
  /\ [][(total_crossed' # total_crossed \/ step' # step \/ sim_time' # sim_time)
          => /\ total_crossed' = total_crossed + crossed_step
             /\ crossed_step = SumOver(crossed_now, Vehicles)
             /\ crossed_step = Cardinality(Finished) - total_crossed
             /\ step' = step + 1
             /\ sim_time' = sim_time + dt
             /\ Cardinality({w \in Threads : pc'[w] # pc[w]}) = 1
             /\ IF engine = "persist"
                THEN ~taken.s2 /\ \A w \in Threads : pc[w] = "single2"
                ELSE pc[0] = "agg"
             /\ ~AtBoundary /\ AtBoundary']_vars
  /\ [][(~AtBoundary /\ AtBoundary') => step' = step + 1]_vars

\* In a team of two or more a second thread reaches an Aggregation step that
\* has already been run, in a tick with a crossing.
C9_Witness ==
  /\ engine = "persist" /\ team >= 2 /\ taken.s2 /\ crossed_step >= 1
  /\ \E w \in Threads : pc[w] = "single2"

\* C10 -- Motion-phase isolation: a step that changes the vehicle array
\* changes the one vehicle whose index it takes from the loop, and nothing of
\* the intersection; no index is held twice; while a thread is in the vehicle
\* loop the intersection (lights, durations, stop offset) does not change.
C10_MotionIsolation ==
  /\ [](/\ \A w, u \in Threads : w # u => mine[w] \cap mine[u] = {}
        /\ \A w \in Threads : mine[w] \cap todo = {})
  /\ [][InMotion => X' = X]_vars
  /\ [][(V' # V \/ (InMotion /\ crossed_now' # crossed_now)) =>
          /\ X' = X
          /\ \E i \in Vehicles :
               /\ Pending(i) /\ ~Pending(i)'
               /\ \A j \in Vehicles \ {i} :
                    V'[j] = V[j] /\ crossed_now'[j] = crossed_now[j]]_vars

\* Two threads have each moved a vehicle across in the same tick.
C10_Witness ==
  /\ InMotion
  /\ \E w, u \in Threads : w # u /\ priv[w] >= 1 /\ priv[u] >= 1

\* Positions of the initial thread outside every parallel region.
SerialCode == {"start", "while", "choose", "par_lights", "par_reset",
               "par_move", "agg", "end"}

\* A parallel region is open: a team exists.
InRegion == pc[0] \notin SerialCode

\* C11 as claimed -- Persistent team retargeted per tick: one team is created
\* once and lives until the run ends, and when a tick begins the size asked
\* for is the value the heuristic returns for the lights as they are.
C11_PersistentRetargeted ==
  /\ [][(~InRegion /\ InRegion') => step = 0]_vars
  /\ [][(InRegion /\ ~InRegion') => RunEnded']_vars
  /\ [][(AtBoundary /\ ~AtBoundary') =>
          threads = choose_threads(num_vehicles, greens_now)]_vars

\* C11 as amended -- The persistent-region engine creates one team of
\* omp_get_max_threads() threads before the first tick, closes it only when
\* the run ends and never asks the heuristic; the per-tick engine asks the
\* heuristic once per tick, before the lights are advanced, and forms and
\* joins a team of at most that size for each loop of the tick, so that no
\* team is open at a tick boundary.
C11_TeamLifecycle ==
  /\ [](engine = "persist" =>
          /\ threads = 0
          /\ InRegion => team = max_threads)
  /\ [][engine = "persist" =>
          /\ (~InRegion /\ InRegion') => (step = 0 /\ pc[0] = "start")
          /\ (InRegion /\ ~InRegion') =>
               (RunEnded' /\ total_crossed >= num_vehicles)]_vars
  /\ [](engine = "pfor" =>
          /\ InRegion => (1 <= team /\ team <= threads)
          /\ ~InRegion => \A w \in Threads \ {0} : pc[w] = "idle"
          /\ AtBoundary => ~InRegion)
  /\ [][engine = "pfor" =>
          /\ (AtBoundary /\ ~AtBoundary') =>
               threads = choose_threads(num_vehicles, greens_now)
          /\ (InRegion /\ ~InRegion') =>
               pc'[0] \in {"par_reset", "par_move", "agg"}]_vars

\* The per-tick engine stands between two regions of a later tick: the team
\* of two that ran the previous loop has been joined.
C11_Witness ==
  /\ engine = "pfor" /\ step >= 1 /\ pc[0] = "par_move"
  /\ team = 2 /\ threads >= 2
  /\ \A w \in Threads \ {0} : pc[w] = "idle"

\* Every vehicle covers the stop offset within one tick.
FastEnough == \A i \in Vehicles : V[i].speed * dt >= X.stop_distance

NextPhase(s) == CASE s = "GREEN" -> "YELLOW"
                  [] s = "YELLOW" -> "RED"
                  [] s = "RED" -> "GREEN"

Duration(L) == CASE L.state = "GREEN" -> L.t_green
                 [] L.state = "YELLOW" -> L.t_yellow
                 [] L.state = "RED" -> L.t_red

\* C12 -- Light transition rule: update_traffic_light adds dt to the
\* accumulated time; if that reaches the duration of the current phase the
\* light moves to the next phase of GREEN -> YELLOW -> RED -> GREEN with
\* accumulated time 0, otherwise the phase stays and the time has grown by dt;
\* id and durations never change.
C12_LightRule ==
  /\ [](\A i \in Lights :
          LET L == X.lights[i]
              t == L.time_in_state + dt
          IN update_traffic_light(L, dt) =
               IF t >= Duration(L)
               THEN [L EXCEPT !.state = NextPhase(L.state), !.time_in_state = 0]
               ELSE [L EXCEPT !.time_in_state = t])
  /\ [][\A i \in Lights :
          LET L == X.lights[i]
              L2 == X'.lights[i]
              t == L.time_in_state + dt
          IN L2 # L =>
               /\ L2.id = L.id /\ L2.t_green = L.t_green
               /\ L2.t_yellow = L.t_yellow /\ L2.t_red = L.t_red
               /\ IF t >= Duration(L)
                  THEN L2.state = NextPhase(L.state) /\ L2.time_in_state = 0
                  ELSE L2.state = L.state /\ L2.time_in_state = t]_vars

\* A light has left a YELLOW of 1 s with dt = 2: one second of overshoot was
\* discarded.
C12_Witness ==
  /\ engine = "rules" /\ dt = 2
  /\ X.lights[0].state = "RED" /\ X.lights[0].time_in_state = 0
  /\ X.lights[0].t_yellow = 1

\* C13 -- Elapsed-time invariant: in every reachable state, and so after
\* every call of update_traffic_light, each light's time_in_state is >= 0 and
\* strictly below the duration of the phase the light is in.
C13_ElapsedBelowDuration ==
  \A i \in Lights :
    /\ 0 <= X.lights[i].time_in_state
    /\ X.lights[i].time_in_state < Duration(X.lights[i])

\* A light was advanced without leaving its phase and stands one second
\* below the phase's duration.
C13_Witness ==
  /\ step >= 1
  /\ \E i \in Lights :
       /\ X.lights[i].time_in_state > 0
       /\ X.lights[i].time_in_state = Duration(X.lights[i]) - 1

StatedMove(v, L, stop, d) ==
  LET go == L.state \in {"GREEN", "YELLOW"}
      v1 == IF v.waiting /\ go THEN [v EXCEPT !.waiting = FALSE] ELSE v
      v2 == IF ~v1.waiting THEN [v1 EXCEPT !.pos = @ - v1.speed * d] ELSE v1
  IN IF v2.pos <= 0 /\ go
     THEN [v |-> [v2 EXCEPT !.finished = TRUE, !.crossings = 1, !.pos = 0],
           ret |-> 1]
     ELSE LET v3 == IF v2.pos <= 0
                    THEN [v2 EXCEPT !.pos = stop, !.waiting = TRUE] ELSE v2
              v4 == IF v3.waiting THEN [v3 EXCEPT !.total_wait = @ + d] ELSE v3
          IN [v |-> v4, ret |-> 0]

\* C15 -- Motion rule: for every vehicle that is not finished, every phase of
\* its light and every dt, move_vehicle yields the vehicle and the return
\* value of the stated rule, and a step that changes a vehicle stores that
\* vehicle and counts that return value.
C15_MotionRule ==
  /\ [](\A i \in Vehicles :
          (~V[i].finished /\ V[i].total_wait + dt <= steps * dt) =>
            move_vehicle(V[i], X, dt) =
              StatedMove(V[i], X.lights[V[i].lane], X.stop_distance, dt))
  /\ [][\A i \in Vehicles :
          V'[i] # V[i] =>
            LET r == StatedMove(V[i], X.lights[V[i].lane], X.stop_distance, dt)
            IN /\ ~V[i].finished
               /\ V'[i] = r.v
               /\ SumOver(priv', Threads) = SumOver(priv, Threads) + r.ret
               /\ crossed_now'[i] = IF r.ret = 1 THEN 1 ELSE crossed_now[i]]_vars

\* A vehicle slower than the stop offset per tick was stopped by RED, waited,
\* was released and has crossed: the call returned 1.
C15_Witness ==
  /\ engine = "rules" /\ priv[0] = 1
  /\ V[0].finished /\ V[0].pos = 0 /\ V[0].total_wait >= 2 * dt
  /\ V[0].speed * dt < X.stop_distance

\* C16 -- Waiting time is monotone: every vehicle is created with total_wait
\* 0, total_wait is never negative, and no step of a run, hence no tick,
\* makes it smaller.
C16_WaitMonotone ==
  /\ [](\A i \in Vehicles :
          /\ seeded.V[i].total_wait = 0
          /\ V[i].total_wait >= 0
          /\ step = 0 /\ AtBoundary => V[i].total_wait = 0)
  /\ [][\A i \in Vehicles : V'[i].total_wait >= V[i].total_wait]_vars

\* A vehicle held by RED has waited through two ticks and is still waiting.
C16_Witness ==
  \E i \in Vehicles : V[i].waiting /\ V[i].total_wait >= 2 * dt /\ step >= 2

\* C17 -- Positive distance after a non-crossing tick: a vehicle that is not
\* finished has a distance to the stop line > 0, at the end of every tick and
\* in every state between; one that waits stands at the stop offset.
C17_PositiveDistance ==
  \A i \in Vehicles :
    ~V[i].finished =>
      /\ V[i].pos > 0
      /\ V[i].waiting => V[i].pos = X.stop_distance

\* At the end of a tick one vehicle stands at the stop offset, blocked by RED.
C17_Witness ==
  /\ AtBoundary /\ step >= 1
  /\ \E i \in Vehicles :
       /\ ~V[i].finished /\ V[i].waiting /\ V[i].pos = X.stop_distance
       /\ X.lights[V[i].lane].state = "RED"

\* The least q with q * k >= n, for n >= 0 and k > 0.
CeilDiv(n, k) == CHOOSE q \in 0 .. n : q * k >= n /\ (q - 1) * k < n

Clamp(x, lo, hi) == IF x < lo THEN lo ELSE IF x > hi THEN hi ELSE x

\* The sizing formula as stated, for a maximum M.
StatedThreads(n, g, M) ==
  Clamp(CeilDiv(n, VEH_PER_THREAD) + (IF g > 0 THEN 1 + g \div 2 ELSE 1), 1, M)

\* C18 as claimed -- Heuristic formula: whenever the engine sizes its team,
\* choose_threads returns the stated formula clamped to the platform maximum,
\* the number omp_get_max_threads() gave when the program started.
C18_ClampToPlatformMax ==
  [][(pc[0] = "choose" /\ pc'[0] # "choose") =>
       threads' = StatedThreads(num_vehicles, greens_now, max_threads)]_vars

\* C19 -- Heuristic bounded and monotone: whatever the control variable holds
\* when the heuristic is called, every vehicle count n and green count g give
\* 1 <= choose_threads(n, g) <= M, with M the maximum the call reads, itself
\* never above the platform maximum; and a load that is no smaller in either
\* argument never yields a smaller team.
C19_BoundedMonotone ==
  engine = "heuristic" =>
    /\ omp_get_max_threads \in 1 .. max_threads
    /\ \A n \in CountSet, g \in GreenSet :
         choose_threads(n, g) \in 1 .. omp_get_max_threads
    /\ \A n1 \in CountSet, g1 \in GreenSet :
         \A n2 \in n1 .. MaxCount, g2 \in g1 .. NUM_LANES :
           choose_threads(n1, g1) <= choose_threads(n2, g2)

\* The heuristic has been applied, its result is strictly inside the platform
\* range, and the lightest and the heaviest load get different team sizes.
C19_Witness ==
  /\ engine = "heuristic"
  /\ max_threads = MaxProcs
  /\ threads = 2
  /\ choose_threads(0, 0) = 1
  /\ choose_threads(MaxCount, NUM_LANES) = 2

\* C20 as claimed -- Heuristic consulted once per tick: in every engine the
\* size asked for changes only at the start of a tick, to the value the
\* heuristic returns for the lights as they are, and by the time a tick's
\* lights are advanced it has been set.
C20_SetInEveryEngine ==
  /\ [][threads' # threads =>
          /\ ~InLightPhase
          /\ threads' = choose_threads(num_vehicles, greens_now)]_vars
  /\ [](InLightPhase => threads >= 1)

\* C20 as amended -- In the per-tick engine every pass of the loop sets the
\* size asked for exactly once: the sizing step is the only one that changes
\* it, it stores choose_threads(num_vehicles, g) for the lights as they are and
\* touches nothing else, the light loop is entered only from it, and it is
\* entered again only after the tick has been aggregated.  The
\* persistent-region engine never sets a size.
C20_OncePerTick ==
  /\ [][engine = "pfor" =>
          /\ (threads' # threads \/ pc[0] = "choose") =>
               /\ pc[0] = "choose" /\ pc'[0] = "par_lights"
               /\ threads' = choose_threads(num_vehicles, greens_now)
               /\ X' = X /\ V' = V /\ step' = step
          /\ (pc'[0] = "par_lights" /\ pc[0] # "par_lights") => pc[0] = "choose"
          /\ (pc'[0] = "choose" /\ pc[0] # "choose") =>
               (pc[0] = "while" /\ total_crossed < num_vehicles)
          /\ (pc'[0] = "while" /\ pc[0] # "while") =>
               (pc[0] = "agg" /\ step' = SatStep(step + 1))]_vars
  /\ [](engine = "pfor" /\ InLightPhase => threads \in 1 .. max_threads)
  /\ [][engine = "persist" => (threads = 0 /\ threads' = 0)]_vars

\* A later tick of the per-tick engine has just been sized, with no light
\* GREEN, below the platform maximum.
C20_Witness ==
  /\ engine = "pfor" /\ pc[0] = "par_lights"
  /\ step >= 1
  /\ greens_now = 0
  /\ threads = 2 /\ max_threads = MaxProcs

\* C21 as claimed -- Invalid configuration is rejected before the run: with a
\* vehicle count of zero or less no light has been set up, no tick has been
\* executed and the run does not come to its regular end.
C21_InvalidRejected ==
  num_vehicles <= 0 => (X.num_lights = 0 /\ step = 0 /\ ~RunEnded)

\* Light i holds a duration of zero or less.
Misconfigured(i) ==
  X.lights[i].t_green <= 0 \/ X.lights[i].t_yellow <= 0 \/ X.lights[i].t_red <= 0

Scenario(n) == steps = ScenarioSteps /\ num_vehicles = n

\* C23 -- Immediate crossing scenario: a step that moves a vehicle whose
\* distance is <= speed * dt while the light of its lane, already advanced by
\* this tick, is GREEN or YELLOW makes it finished at distance 0 and marks the
\* crossing; with the single vehicle 5 m from the line at 5 m/s, dt = 1 and a
\* lane-0 GREEN of 12 s, as soon as tick 1 is over the vehicle is finished with
\* crossings 1, distance 0 and total_crossed 1, and no second tick begins.
C23_ImmediateCrossing ==
  /\ [][\A i \in Vehicles :
          (V'[i] # V[i] /\ V[i].pos <= V[i].speed * dt
             /\ Permits(X.lights[V[i].lane])) =>
            /\ V'[i].finished /\ V'[i].pos = 0 /\ V'[i].crossings = 1
            /\ crossed_now'[i] = 1]_vars
  /\ [](Scenario(1) =>
          /\ seeded.V[0].lane = 0 /\ seeded.V[0].pos = 5 * LenUnit
          /\ seeded.V[0].speed = 5 * LenUnit /\ dt = 1
          /\ seeded.X.lights[0].state = "GREEN" /\ X.lights[0].t_green = 12
          /\ step <= 1
          /\ step = 1 =>
               /\ V[0].finished /\ V[0].crossings = 1 /\ V[0].pos = 0
               /\ total_crossed = 1
               /\ X.lights[0].state = "GREEN"
               /\ pc[0] \in {"while", "brk", "end"}
          /\ RunEnded => step = 1)

\* The single-vehicle scenario run has ended.
C23_Witness == Scenario(1) /\ RunEnded /\ V[0].finished /\ total_crossed = 1

\* C24 -- Blocked-by-RED scenario: with the vehicle of lane 1 at 3 m and
\* 3 m/s, dt = 1, stop offset 2 m and a lane-1 RED of 15 s, at the end of
\* tick 1 the vehicle is stopped at 2 m with total_wait 1; at the end of every
\* tick k < 15 it is stopped at 2 m with total_wait k under a RED light; the
\* lane-1 light changes for the first time in tick 15, to GREEN; the vehicle
\* is not finished before tick 15 and is finished at the end of tick 15.
C24_BlockedByRed ==
  /\ [](Scenario(2) =>
          LET v == V[1]
              L == X.lights[1]
          IN /\ v.lane = 1 /\ v.speed = 3 * LenUnit /\ dt = 1
             /\ seeded.V[1].pos = 3 * LenUnit
             /\ X.stop_distance = 2 * LenUnit /\ L.t_red = 15
             /\ seeded.X.lights[1].state = "RED"
             /\ step < 14 => (~v.finished /\ L.state = "RED")
             /\ (AtBoundary /\ step \in 1 .. 14) =>
                  /\ v.waiting /\ v.pos = 2 * LenUnit /\ ~v.finished
                  /\ v.total_wait = step
                  /\ L.state = "RED" /\ L.time_in_state = step
             /\ (AtBoundary /\ step >= 15) =>
                  /\ step = 15
                  /\ L.state = "GREEN" /\ L.time_in_state = 0
                  /\ v.finished /\ v.pos = 0 /\ crossed_now[1] = 1
                  /\ v.total_wait = 14)
  /\ [][(Scenario(2) /\ X'.lights[1].state # X.lights[1].state) =>
          (step = 14 /\ X'.lights[1].state = "GREEN")]_vars

\* The two-vehicle scenario run has ended: the vehicle of lane 1 crossed in
\* tick 15 after 14 s at the stop offset.
C24_Witness ==
  /\ Scenario(2) /\ RunEnded /\ step = 15
  /\ V[1].finished /\ V[1].total_wait = 14

\* Vehicle i was set up at or past the stop line.
PastLine(i) == seeded.V[i].pos <= 0

\* C25 -- Initial distance at or past the line: the first tick moves such a
\* vehicle by the stated rule, against the lights as tick 1 has advanced
\* them: it is finished at distance 0 and marked if its light is GREEN or
\* YELLOW, otherwise it stands at the stop offset, stopped, with total_wait
\* dt; and so it is found at the end of tick 1.
C25_PastLineFirstTick ==
  /\ [][\A i \in Vehicles :
          (PastLine(i) /\ step = 0 /\ V'[i] # V[i]) =>
            LET L == X.lights[V[i].lane]
                r == StatedMove(V[i], L, X.stop_distance, dt)
            IN /\ V[i] = seeded.V[i]
               /\ X.lights = RefRun(1).X.lights
               /\ V'[i] = r.v
               /\ IF Permits(L)
                  THEN /\ V'[i].finished /\ V'[i].pos = 0
                       /\ crossed_now'[i] = 1
                  ELSE /\ ~V'[i].finished /\ V'[i].waiting
                       /\ V'[i].pos = X.stop_distance
                       /\ V'[i].total_wait = dt]_vars
  /\ [](\A i \in Vehicles :
          (PastLine(i) /\ AtBoundary /\ step = 1) =>
            IF Permits(X.lights[V[i].lane])
            THEN /\ V[i].finished /\ V[i].pos = 0 /\ V[i].crossings = 1
                 /\ crossed_now[i] = 1 /\ total_crossed >= 1
            ELSE /\ ~V[i].finished /\ V[i].waiting
                 /\ V[i].pos = X.stop_distance /\ V[i].total_wait = dt)

\* Tick 1 is over: one vehicle that started past the line has crossed on
\* GREEN, another one was sent back to the stop offset by RED.
C25_Witness ==
  /\ AtBoundary /\ step = 1
  /\ \E i, j \in Vehicles :
       /\ PastLine(i) /\ seeded.V[i].pos < 0 /\ V[i].finished
       /\ PastLine(j) /\ V[j].waiting /\ V[j].pos = X.stop_distance

\* C26 -- Initial light configuration: init_intersection leaves one light
\* per lane, the even ones GREEN and the odd ones RED, all with elapsed time
\* 0, whatever durations the seed produced; when the first tick begins the
\* run still has that configuration, and the number of lights stays the same
\* for the whole run.
C26_InitialLights ==
  /\ seeded.X.num_lanes = NUM_LANES
  /\ seeded.X.num_lights = seeded.X.num_lanes
  /\ DOMAIN seeded.X.lights = 0 .. (NUM_LANES - 1)
  /\ \A i \in DOMAIN seeded.X.lights :
       /\ seeded.X.lights[i].id = i
       /\ seeded.X.lights[i].state = (IF i % 2 = 0 THEN "GREEN" ELSE "RED")
       /\ seeded.X.lights[i].time_in_state = 0
  /\ (step = 0 /\ pc[0] \in {"start", "while", "loop"}) => X = seeded.X
  /\ X.num_lights = seeded.X.num_lights
  /\ DOMAIN X.lights = DOMAIN seeded.X.lights

\* A run seeded with different durations per light is two ticks on and its
\* first light is no longer GREEN.
C26_Witness ==
  /\ step >= 2
  /\ X.lights[0].state # "GREEN"
  /\ seeded.X.lights[0].t_green # seeded.X.lights[1].t_green

\* The vehicles whose marker is set.
CrossedInTick == {i \in Vehicles : crossed_now[i] = 1}

\* The vehicles that have finished and are not yet in total_crossed: before
\* the Aggregation step, the ones for which move_vehicle returned 1 in the
\* tick.
ReturnedOne == Cardinality(Finished) - total_crossed

\* The Motion phase of the tick is over and its Aggregation step has not run.
MotionDone ==
  \/ engine = "pfor" /\ pc[0] = "agg"
  \/ engine = "persist" /\ ~taken.s2 /\ \A w \in Team : pc[w] = "single2"

\* C27 -- Reduction correctness: when the Motion phase is over, crossed_step
\* is the number of vehicles for which move_vehicle returned 1 in the tick,
\* whatever the team and the order in which the threads handed in their
\* counts; while the phase runs, crossed_step and the private counts add up
\* to that number; in the persistent region no thread counts before the
\* reset of the tick is complete, and the Aggregation step reads crossed_step
\* only when every private count has been combined into it.
C27_Reduction ==
  /\ [](MotionDone =>
          /\ crossed_step = ReturnedOne
          /\ crossed_step = Cardinality(CrossedInTick)
          /\ \A w \in Threads : priv[w] = 0)
  /\ []((engine \in {"pfor", "persist"} /\
         \E w \in Team : pc[w] \in {"for", "wm", "for_bar", "jm"}) =>
          crossed_step + SumOver(priv, Threads) = ReturnedOne)
  /\ [][(engine = "persist" /\
         (priv' # priv \/ crossed_step' > crossed_step)) =>
          /\ \A w \in Team : pc[w] \in {"for", "for_bar"}
          /\ ~taken.s1
          /\ crossed_step + SumOver(priv, Threads) =
               Cardinality(CrossedInTick)]_vars
  /\ [][(engine \in {"pfor", "persist"} /\ total_crossed' # total_crossed) =>
          /\ MotionDone
          /\ todo = {}
          /\ total_crossed' = total_crossed + ReturnedOne]_vars

\* Two threads of the persistent team have each moved a vehicle across the
\* line in the same tick; one has handed in its count, the other has not.
C27_Witness ==
  /\ engine = "persist" /\ team >= 2
  /\ crossed_step = 1
  /\ \E w, u \in Team : /\ pc[w] = "for_bar" /\ pc[u] = "for"
                        /\ priv[u] = 1 /\ todo = {}

\* The vehicle loop of the tick still owes vehicle i its call of move_vehicle.
ToMove(i) == InMotion /\ Pending(i)

\* C28 -- Every element is updated exactly once per tick: a step that changes
\* the lights applies update_traffic_light to one light that still has the
\* value the last tick left it, and the light loop is left with every light
\* advanced; the vehicle loop starts with every index owed a call, on the
\* vehicles as the last tick left them, a step settles one index by applying
\* move_vehicle to that vehicle and to no other, an index settled is not owed
\* again in the tick, no index is held by two threads, and the loop is left
\* only with every index settled.
C28_ExactlyOnce ==
  /\ [][X' # X =>
          \E i \in Lights :
            /\ X.lights[i] = RefRun(step).X.lights[i]
            /\ X' = [X EXCEPT !.lights[i] = update_traffic_light(@, dt)]
            /\ X'.lights[i] # X.lights[i]]_vars
  /\ [][(InLightPhase /\ ~InLightPhase') =>
          /\ X' = X
          /\ X.lights = RefRun(step + 1).X.lights]_vars
  /\ [][\A i \in Vehicles :
          (~ToMove(i) /\ ToMove(i)') =>
            /\ ~InMotion
            /\ \A j \in Vehicles : ToMove(j)'
            /\ V' = V /\ V = RefRun(step).V
            /\ X.lights = RefRun(step + 1).X.lights]_vars
  /\ [][\A i \in Vehicles :
          (ToMove(i) /\ ~ToMove(i)') =>
            /\ V'[i] = move_vehicle(V[i], X, dt).v
            /\ \A j \in Vehicles \ {i} :
                 V'[j] = V[j] /\ (ToMove(j)' <=> ToMove(j))]_vars
  /\ [][\A i \in Vehicles :
          V'[i] # V[i] => (ToMove(i) /\ ~ToMove(i)')]_vars
  /\ [](\A w, u \in Threads : w # u => mine[w] \cap mine[u] = {})
  /\ [][(InMotion /\ ~InMotion') =>
          /\ \A i \in Vehicles : ~Pending(i)
          /\ V' = V /\ V = RefRun(step + 1).V]_vars

\* The vehicle loop of a later tick has been run by a team of two or more,
\* and one of its calls was for a vehicle that had finished in an earlier
\* tick.
C28_Witness ==
  /\ MotionDone /\ team >= 2 /\ step >= 1
  /\ \E i, j \in Vehicles :
       /\ V[i].finished /\ crossed_now[i] = 0
       /\ ~V[j].finished /\ V[j] # RefRun(step).V[j]

\* Vehicle i finished in the tick that ended last.
CrossedLastTick(i) ==
  step >= 1 /\ V[i].finished /\ ~RefRun(step - 1).V[i].finished

\* C29 -- Crossed-now marker is exact: at a tick boundary the marker of a
\* vehicle is 1 exactly if the vehicle finished in the tick that has just
\* ended, and 0 for every other vehicle; a marker is set only by the step of
\* the vehicle loop in which the vehicle finishes, and cleared only outside
\* the vehicle loop, before any vehicle has moved in the tick.
C29_MarkerExact ==
  /\ [](AtBoundary =>
          \A i \in Vehicles :
            /\ crossed_now[i] \in {0, 1}
            /\ crossed_now[i] = 1 <=> CrossedLastTick(i))
  /\ [][\A i \in Vehicles :
          (crossed_now[i] = 0 /\ crossed_now'[i] # 0) =>
            /\ InMotion
            /\ crossed_now'[i] = 1
            /\ ~V[i].finished /\ V'[i].finished]_vars
  /\ [][\A i \in Vehicles :
          (crossed_now[i] # 0 /\ crossed_now'[i] = 0) =>
            /\ ~InMotion /\ ~AtBoundary
            /\ V' = V /\ V = RefRun(step).V
            /\ X.lights = RefRun(step + 1).X.lights]_vars
  /\ [][\A i \in Vehicles :
          (InMotion /\ ~V[i].finished /\ V'[i].finished) =>
            crossed_now'[i] = 1]_vars

\* At the end of a later tick one vehicle carries the marker and another,
\* which finished in an earlier tick, does not.
C29_Witness ==
  /\ AtBoundary /\ step >= 2
  /\ \E i, j \in Vehicles :
       /\ crossed_now[i] = 1
       /\ V[j].finished /\ crossed_now[j] = 0

\* By the reference run, every vehicle has crossed when tick n ends.
AllCrossedBy(n) == RefRun(n).total_crossed >= num_vehicles

\* C30 -- Step-limited variants stop on whichever comes first: the tick
\* counter never passes steps; a tick begins only with budget left and a
\* vehicle still to cross; the check after a tick that finds every vehicle
\* across ends the run at once, and so does the loop test that finds the
\* budget used; a run that has ended executed exactly the ticks up to the
\* first one at whose end every vehicle was across, or steps ticks if there
\* is no such tick among the first steps, and nothing happens after its end.
C30_StopOnFirst ==
  /\ [](engine \in StepLimited => step <= steps)
  /\ [][(engine \in StepLimited /\ AtBoundary /\ ~AtBoundary') =>
          /\ step < steps
          /\ total_crossed < num_vehicles]_vars
  /\ [][(engine \in StepLimited /\ pc[0] = "brk" /\
         total_crossed >= num_vehicles) => RunEnded']_vars
  /\ [][(engine \in StepLimited /\ pc[0] = "loop" /\ step >= steps) =>
          RunEnded']_vars
  /\ []((engine \in StepLimited /\ RunEnded) =>
          /\ total_crossed = RefRun(step).total_crossed
          /\ V = RefRun(step).V
          /\ \A n \in 0 .. (step - 1) : ~AllCrossedBy(n)
          /\ step = steps \/ AllCrossedBy(step))
  /\ [][(engine \in StepLimited /\ RunEnded) => FALSE]_vars

\* The OpenMP step-limited run has stopped after its second tick, which was
\* the first to end with every vehicle across, with budget left.
C30_Witness ==
  /\ engine = "omp_steps" /\ RunEnded
  /\ step = 2 /\ step < steps
  /\ total_crossed = num_vehicles /\ num_vehicles >= 1

\* The number of ticks the sequential loop needs on the seeded inputs: the
\* first tick at whose end every vehicle is across.
RECURSIVE TicksFrom(_)
TicksFrom(n) == IF AllCrossedBy(n) \/ n >= steps THEN n ELSE TicksFrom(n + 1)
TicksToCompletion == TicksFrom(0)

\* C31 -- Parallel engines refine the sequential engine: in each of the three
\* engines the state a tick leaves (lights, vehicles, markers, total_crossed)
\* is the state the sequential tick, applied step times to the same seeded
\* lights and vehicles, leaves, so the three agree tick by tick; each ends
\* after the same number of ticks, the first at whose end every vehicle is
\* across.
C31_Refinement ==
  (engine \in Refining /\ AtBoundary) =>
    /\ X.lights = RefRun(step).X.lights
    /\ V = RefRun(step).V
    /\ crossed_now = RefRun(step).crossed_now
    /\ total_crossed = RefRun(step).total_crossed
    /\ step <= TicksToCompletion
    /\ RunEnded => (step = TicksToCompletion /\ AllCrossedBy(step))

\* The persistent region, run by two or more threads, has ended after three
\* or more ticks in which a vehicle had to wait.
C31_Witness ==
  /\ engine = "persist" /\ team >= 2 /\ RunEnded /\ step >= 3
  /\ num_vehicles >= 2
  /\ \E i \in Vehicles : V[i].total_wait > 0

\* schedule(static) without a chunk size: the indices are cut into one block
\* per thread of the team; the block of thread w.
Share(w) ==
  LET chunk == CeilDiv(num_vehicles, team) IN
  {i \in Vehicles : i \div chunk = w}

\* Shared locations.
LightLoc(S) == {<<"light", l>> : l \in S}
VehicleLoc(S) == {<<"V", i>> : i \in S}
MarkerLoc(S) == {<<"crossed_now", i>> : i \in S}

\* The shared locations thread w reads between the synchronisation point it
\* has passed and the next one, as far as its position tells: thread 0 reads
\* total_crossed in the probe, every thread reads it at the check, the thread
\* in the first single reads the lights it advances, a thread in the vehicle
\* loop reads the vehicles of its block and their lights.
ReadsOf(w) ==
  CASE pc[w] = "probe" -> IF w = 0 THEN {<<"total_crossed", 0>>} ELSE {}
    [] pc[w] = "check" -> {<<"total_crossed", 0>>}
    [] pc[w] = "s1_lights" -> LightLoc(Lights)
    [] pc[w] = "for" ->
         VehicleLoc(Share(w)) \cup LightLoc({V[i].lane : i \in Share(w)})
    [] OTHER -> {}

\* The shared locations thread w writes there: the thread in the first single
\* the lights, every marker and crossed_step, a thread in the vehicle loop the
\* vehicles and markers of its block (crossed_step is its private copy there,
\* combined by the reduction).
WritesOf(w) ==
  CASE pc[w] = "s1_lights" ->
         LightLoc(Lights) \cup MarkerLoc(Vehicles) \cup {<<"crossed_step", 0>>}
    [] pc[w] = "s1_reset" -> MarkerLoc(Vehicles) \cup {<<"crossed_step", 0>>}
    [] pc[w] = "for" -> VehicleLoc(Share(w)) \cup MarkerLoc(Share(w))
    [] OTHER -> {}

\* C32 -- No data race in the persistent-region engine: no two threads of the
\* team are at positions where one writes a shared location the other reads
\* or writes; while a thread runs the Light/Reset block no thread is in the
\* vehicle loop; and the Aggregation step, which writes total_crossed, step
\* and sim_time and reads crossed_step, the vehicles, the markers and the
\* lights, is taken once in the tick, by one thread, while every other thread
\* of the team is at a position without any access.
C32_NoDataRace ==
  /\ [](engine = "persist" =>
          \A w, u \in Team :
            w # u =>
              /\ WritesOf(w) \cap (ReadsOf(u) \cup WritesOf(u)) = {}
              /\ pc[w] \in {"s1_lights", "s1_reset"} =>
                   pc[u] \notin {"for", "for_bar", "single2", "s2_bar"})
  /\ [][(engine = "persist" /\
         (total_crossed' # total_crossed \/ step' # step \/
          sim_time' # sim_time)) =>
          \E w \in Team :
            /\ pc[w] = "single2" /\ pc'[w] = "s2_bar"
            /\ ~taken.s2 /\ taken'.s2
            /\ \A u \in Team \ {w} :
                 /\ pc'[u] = pc[u]
                 /\ pc[u] \in {"single2", "s2_bar"}
                 /\ ReadsOf(u) \cup WritesOf(u) = {}]_vars

\* In a tick after the first, one thread of the team is advancing the lights
\* while another has not yet read total_crossed at the termination check.
C32_Witness ==
  /\ engine = "persist" /\ team >= 2 /\ step >= 1
  /\ \E w, u \in Team : pc[w] = "s1_lights" /\ li >= 1 /\ pc[u] = "check"

\* The barriers of an iteration of for(;;), explicit and implied, and the
\* barrier that ends the parallel region.
Barriers == {"bar1", "bar2", "s1_bar", "for_bar", "s2_bar", "done"}

\* The positions from which a thread arrives at barrier b next.
Approach(b) ==
  CASE b = "bar1" -> {}
    [] b = "bar2" -> {"probe"}
    [] b = "s1_bar" -> {"check", "single1", "s1_lights", "s1_reset"}
    [] b = "for_bar" -> {"for"}
    [] b = "s2_bar" -> {"single2"}
    [] b = "done" -> {"check"}

\* Thread w of the team waits at barrier b.
WaitsAt(w, b) == w \in Team /\ w \in DOMAIN pc /\ pc[w] = b

\* C33 -- No deadlock in the persistent-region engine: while a thread waits
\* at a barrier every other thread of the team waits at the same barrier of
\* the same iteration or is on its way to it; as long as the region is open
\* some thread can take a step; a thread that waits at a barrier gets past
\* it; and once total_crossed >= num_vehicles holds at the termination check
\* every thread leaves the region and the run ends.
C33_NoDeadlock ==
  /\ [](\A w \in Team :
          pc[w] \in Barriers =>
            \A u \in Team :
              /\ pc[u] \in {pc[w]} \cup Approach(pc[w])
              /\ iter[u] = iter[w])
  /\ [](~RunEnded => ENABLED PersistNext)
  /\ \A w \in 0 .. (MaxThreads - 1) :
       \A b \in Barriers :
         WaitsAt(w, b) ~> ~WaitsAt(w, b)
  /\ (pc[0] = "check" /\ total_crossed >= num_vehicles) ~>
       (RunEnded /\ \A w \in Threads : pc[w] \in {"end", "idle"})

\* The run of a team of two or more has ended after three or more ticks.
C33_Witness ==
  /\ team >= 2 /\ RunEnded /\ step >= 3
  /\ \A w \in Threads : pc[w] \in {"end", "idle"}

\* C34 -- Stopped implies parked on RED: at a tick boundary a vehicle whose
\* waiting flag is set is not finished, stands exactly at the stop offset and
\* has a RED light; and a step adds to a vehicle's waiting time only dt, only
\* under a RED light, and leaves the vehicle waiting.
C34_ParkedOnRed ==
  /\ [](AtBoundary =>
          \A i \in Vehicles :
            V[i].waiting =>
              /\ ~V[i].finished
              /\ V[i].pos = X.stop_distance
              /\ X.lights[V[i].lane].state = "RED")
  /\ [][\A i \in Vehicles :
          V'[i].total_wait # V[i].total_wait =>
            /\ V'[i].total_wait = V[i].total_wait + dt
            /\ X.lights[V[i].lane].state = "RED"
            /\ X' = X
            /\ V'[i].waiting /\ V'[i].pos = X.stop_distance]_vars

\* At the end of a tick one vehicle has been waiting for two ticks or more
\* and another, released earlier, is on its way again without having crossed.
C34_Witness ==
  /\ AtBoundary /\ step >= 2
  /\ \E i \in Vehicles : V[i].waiting /\ V[i].total_wait >= 2 * dt
  /\ \E j \in Vehicles :
       /\ ~V[j].waiting /\ ~V[j].finished /\ V[j].total_wait > 0

\* int total_crossings = 0; for (i) total_crossings += V[i].crossings;
total_crossings == SumOver([i \in Vehicles |-> V[i].crossings], Vehicles)

\* C35 -- Finished-state consistency: in every state a vehicle is finished
\* exactly if its crossings count is 1, the count is 0 otherwise, and a
\* finished vehicle has distance 0 and is not waiting; when the run has ended
\* the sum of the crossings counts, as the summary computes it, equals
\* total_crossed.
C35_FinishedConsistent ==
  /\ \A i \in Vehicles :
       /\ V[i].crossings \in {0, 1}
       /\ V[i].finished <=> V[i].crossings = 1
       /\ V[i].finished => (V[i].pos = 0 /\ ~V[i].waiting)
  /\ RunEnded => total_crossings = total_crossed

\* The run goes on: one vehicle, which had been stopped, is finished, another
\* is stopped.
C35_Witness ==
  /\ ~RunEnded /\ AtBoundary
  /\ \E i, j \in Vehicles :
       /\ V[i].finished /\ V[i].total_wait > 0
       /\ ~V[j].finished /\ V[j].waiting

\* Vehicle i covers the stop offset in one tick.
Prompt(i) == V[i].speed * dt >= X.stop_distance

\* The ticks, of those executed, that vehicle i ended stopped.
EndedStopped(i) == {n \in 1 .. step : RefRun(n).V[i].waiting}

\* C36 -- Prompt release of stopped vehicles: for a vehicle with speed * dt >=
\* stop offset, a call of move_vehicle that finds it stopped makes it cross
\* if its light is GREEN or YELLOW and otherwise leaves it where it is, still
\* stopped, with dt more waiting time; it is stopped by a call only if it has
\* never waited before; and at a tick boundary its waiting time is dt times
\* the number of ticks it ended stopped.
C36_PromptRelease ==
  /\ [][\A i \in Vehicles :
          (Prompt(i) /\ V[i].waiting /\ V'[i] # V[i]) =>
            IF Permits(X.lights[V[i].lane])
            THEN /\ V'[i].finished /\ crossed_now'[i] = 1
                 /\ V'[i].total_wait = V[i].total_wait
            ELSE /\ V'[i].waiting /\ ~V'[i].finished
                 /\ V'[i].pos = V[i].pos
                 /\ V'[i].total_wait = V[i].total_wait + dt]_vars
  /\ [][\A i \in Vehicles :
          (Prompt(i) /\ ~V[i].waiting /\ V'[i].waiting) =>
            V[i].total_wait = 0]_vars
  /\ [](AtBoundary =>
          \A i \in Vehicles :
            Prompt(i) =>
              V[i].total_wait = dt * Cardinality(EndedStopped(i)))

\* A prompt vehicle has crossed in this tick after ending two ticks or more
\* stopped, in a run with a vehicle that is not prompt.
C36_Witness ==
  /\ AtBoundary
  /\ \E i, j \in Vehicles :
       /\ Prompt(i) /\ crossed_now[i] = 1 /\ V[i].total_wait >= 2 * dt
       /\ ~Prompt(j)

\* The vehicles that had not finished when the tick in progress began.
Unfinished == {i \in Vehicles : ~RefRun(step).V[i].finished}

\* C37 -- Counter bounds: total_crossed stays within 0..num_vehicles and never
\* decreases; the count of a tick, when its Motion phase is over, is at most
\* the number of vehicles that had not finished when the tick began; step is
\* 0 until a tick has been executed, grows by 1 with the Aggregation step of
\* each tick and in no other step; and sim_time is step * dt.
C37_CounterBounds ==
  /\ [](num_vehicles >= 1 =>
          /\ total_crossed \in 0 .. num_vehicles
          /\ step >= 0
          /\ sim_time = step * dt
          /\ MotionDone => crossed_step \in 0 .. Cardinality(Unfinished)
          /\ (V = seeded.V /\ ~MotionDone) => step = 0)
  /\ [][/\ total_crossed' >= total_crossed
        /\ step' # step => (MotionDone /\ step' = step + 1)
        /\ (MotionDone /\ ~MotionDone') => step' = step + 1]_vars

\* The third tick or a later one is over with a count of 1 when two vehicles
\* had not finished at its start.
C37_Witness ==
  /\ MotionDone /\ step >= 2
  /\ crossed_step = 1 /\ Cardinality(Unfinished) = 2

\* init_vehicles for the largest count of the harness, at some distance and
\* speed of the input sets.
ManyVehicles ==
  init_vehicles(MaxCount,
                [i \in 0 .. (MaxCount - 1) |-> Lowest(PosSet)],
                [i \in 0 .. (MaxCount - 1) |-> Lowest(SpeedSet)])

\* C38 -- Configuration is frozen during the run: in every state each vehicle
\* has the id, lane and speed it was created with, each light the id and the
\* three durations it was created with, and the stop offset, the number of
\* lanes and the number of lights are as created; the lane of every vehicle
\* is the index of an existing light, for the vehicles of the run and for
\* every index init_vehicles can be asked for.
C38_FrozenConfiguration ==
  /\ DOMAIN V = DOMAIN seeded.V
  /\ \A i \in Vehicles :
       /\ V[i].id = seeded.V[i].id /\ V[i].id = i
       /\ V[i].lane = seeded.V[i].lane
       /\ V[i].speed = seeded.V[i].speed
       /\ V[i].lane \in 0 .. (X.num_lights - 1)
       /\ V[i].lane \in DOMAIN X.lights
  /\ DOMAIN X.lights = DOMAIN seeded.X.lights
  /\ \A l \in DOMAIN X.lights :
       /\ X.lights[l].id = seeded.X.lights[l].id
       /\ X.lights[l].t_green = seeded.X.lights[l].t_green
       /\ X.lights[l].t_yellow = seeded.X.lights[l].t_yellow
       /\ X.lights[l].t_red = seeded.X.lights[l].t_red
  /\ X.stop_distance = seeded.X.stop_distance
  /\ X.num_lights = seeded.X.num_lights
  /\ X.num_lanes = seeded.X.num_lanes
  /\ \A i \in DOMAIN ManyVehicles :
       ManyVehicles[i].lane \in 0 .. (X.num_lights - 1)

\* After two ticks or more every light and every vehicle of a two-vehicle run
\* differs from what it was created as.
C38_Witness ==
  /\ step >= 2 /\ num_vehicles >= 2
  /\ \A i \in Vehicles : V[i] # seeded.V[i]
  /\ \A l \in Lights : X.lights[l] # seeded.X.lights[l]

\* A tick boundary of a respawn engine: the loop head.
RespawnBoundary == engine \in Respawning /\ pc[0] \in {"loop", "end"}

\* C39 -- respawn variant under parallel execution: at every tick boundary
\* of a respawn engine the vehicles' distances, the crossing count of the
\* last tick and the cumulative count are those of the sequential respawn
\* program after the same number of ticks from the same seed, whatever
\* vehicles each worker took and in whatever order the workers moved them.
C39_RespawnDeterministic ==
  RespawnBoundary =>
    LET ref == RespawnRun(step) IN
      /\ \A i \in Vehicles : V[i].pos = ref.V[i].pos
      /\ crossed_step = ref.crossed_step
      /\ total_crossed = ref.total_crossed

Spec == Init /\ [][Next]_vars

\* The liveness specification: vehicles may be slower than the stop offset per
\* tick, and the threads of the program keep being scheduled.
InitLive ==
  \E e \in Engines, N \in 1 .. MaxVehicles, d \in DtSet, M \in 1 .. MaxThreads,
     prof \in Profiles :
    \E pos0 \in [0 .. (N - 1) -> PosSet],
       speed0 \in [0 .. (N - 1) -> SlowSpeedSet] :
      Setup(e, N, d, MaxTicks, M, prof, pos0, speed0)

SpecLive == InitLive /\ [][Next]_vars /\ WF_vars(Next)

\* The function harness: the light rule, the vehicle rule and the heuristic
\* applied to inputs drawn from bounded sets.
SpecUnit == InitUnit /\ [][UnitNext]_vars

\* The engines started with whatever count the command line holds.
SpecArgs == InitArgs /\ [][Next]_vars

\* The step-limited engines on short budgets, and the scenario runs.
SpecSteps == InitSteps /\ [][StepsNext]_vars

\* The engines on an intersection with durations of zero or less, the threads
\* of the program being scheduled again and again.
SpecZero == InitZero /\ [][Next]_vars /\ WF_vars(Next)

\* The sequential loop and the two parallel engines on the same inputs.
SpecRefine == InitRefine /\ [][Next \/ SeqNext]_vars

\* The persistent-region engine alone, its threads being scheduled again and
\* again.
SpecPersist == InitPersist /\ [][PersistNext]_vars /\ WF_vars(PersistNext)

\* The respawn programs, sequential and OpenMP.
SpecRespawn == InitRespawn /\ [][RespawnNext]_vars

====
